---- MODULE Spec2Model ----
(***************************************************************************)
(* Model of the building-key validators (lib/validators.py), the LL97      *)
(* penalty engine (lib/calculations.py) and the retrieval waterfall        *)
(* (lib/waterfall.py with lib/nyc_apis.py and lib/storage.py).             *)
(*                                                                         *)
(* A Python str is a sequence of characters; a character is named by a     *)
(* one-element string.  "sup2" is U+00B2 (superscript two) and "ar1" is    *)
(* U+0661 (Arabic-Indic digit one): both satisfy str.isdigit, only the     *)
(* second is a decimal digit for int() and for the regex class \d.         *)
(*                                                                         *)
(* An optional value is a tuple: <<>> is None (or a dict key that is not   *)
(* set, which dict.get reads as None) and <<v>> is the value v.            *)
(***************************************************************************)
EXTENDS Integers, Sequences, FiniteSets, TLC

VARIABLES
    kv,               \* the validators applied to one string (SpecKey)
    pe,               \* calculate_ll97_penalty applied to one input (SpecPenalty)
    au,               \* _query_ll87 applied to one table (SpecAudit)
    pc,               \* position of the run of resolve_and_fetch
    user_input,       \* resolve_and_fetch: user_input
    frame,            \* resolve_and_fetch: save_to_db, input_type, geosearch_data;
                      \* the response GeoSearch gave in Step 1 and the categories
                      \* whose narrative failed in Step 5
    bbl,              \* fetch_building_waterfall: bbl
    result,           \* fetch_building_waterfall: result
    data_sources,     \* fetch_building_waterfall: data_sources
    queried,          \* the sources queried so far, in order
    exc,              \* the exception that left resolve_and_fetch, if any
    ll84_dataset,     \* what the LL84 dataset holds for the key and for the BIN
    ll87_raw_table,   \* the rows of table ll87_raw
    building_metrics, \* the row of table building_metrics for the key
    writes,           \* the upserts attempted so far, in order
    net,              \* one network-bound lookup and its attempts (SpecRetry)
    cc,               \* two runs for different keys and their table (SpecConcurrent)
    up                \* upsert_building_metrics applied to a table (SpecUpsert)

vars == <<kv, pe, au, pc, user_input, frame, bbl, result, data_sources, queried,
          exc, ll84_dataset, ll87_raw_table, building_metrics, writes, net, cc, up>>

None == <<>>
Some(v) == <<v>>

(***************************************************************************)
(* Characters and strings                                                  *)
(***************************************************************************)
AsciiDigits == {"0", "1", "2", "3", "4", "5", "6", "7", "8", "9"}

Alphabet == AsciiDigits \cup {"-", " ", "a", "sup2", "ar1"}

\* str.isdigit on one character: ASCII digits, other decimal digits (Nd)
\* and digit-like characters such as superscripts (No).
IsDigitChar(ch) == ch \in AsciiDigits \cup {"sup2", "ar1"}

\* The characters int() and the regex class \d accept: decimal digits (Nd).
IsDecimalChar(ch) == ch \in AsciiDigits \cup {"ar1"}

\* int(ch) for a decimal digit.
IntOfChar(ch) ==
    CASE ch = "0" -> 0 [] ch = "1" -> 1 [] ch = "2" -> 2 [] ch = "3" -> 3
      [] ch = "4" -> 4 [] ch = "5" -> 5 [] ch = "6" -> 6 [] ch = "7" -> 7
      [] ch = "8" -> 8 [] ch = "9" -> 9 [] ch = "ar1" -> 1

\* str.isdigit: non-empty and every character is a digit character.
isdigit(s) == Len(s) > 0 /\ \A i \in 1..Len(s) : IsDigitChar(s[i])

RECURSIVE lstrip(_)
lstrip(s) == IF Len(s) > 0 /\ Head(s) = " " THEN lstrip(Tail(s)) ELSE s

RECURSIVE rstrip(_)
rstrip(s) ==
    IF Len(s) > 0 /\ s[Len(s)] = " " THEN rstrip(SubSeq(s, 1, Len(s) - 1)) ELSE s

\* str.strip()
strip(s) == rstrip(lstrip(s))

\* str.replace("-", "")
RECURSIVE RemoveDashes(_)
RemoveDashes(s) ==
    IF Len(s) = 0 THEN <<>>
    ELSE IF Head(s) = "-" THEN RemoveDashes(Tail(s))
    ELSE <<Head(s)>> \o RemoveDashes(Tail(s))

\* A mutant of bbl_from_dashed: removes only the first dash.
RECURSIVE RemoveFirstDash(_)
RemoveFirstDash(s) ==
    IF Len(s) = 0 THEN <<>>
    ELSE IF Head(s) = "-" THEN Tail(s)
    ELSE <<Head(s)>> \o RemoveFirstDash(Tail(s))

(***************************************************************************)
(* lib/validators.py                                                       *)
(***************************************************************************)
\* validate_bbl raises ValueError when int(bbl[0]) is applied to a
\* character that passes isdigit but is not a decimal digit.
validate_bbl_raises(s) ==
    /\ Len(s) = 10
    /\ isdigit(s)
    /\ ~IsDecimalChar(s[1])

\* The value validate_bbl returns when it does not raise.
validate_bbl(s) ==
    IF Len(s) = 0 \/ Len(s) # 10 THEN FALSE
    ELSE IF ~isdigit(s) THEN FALSE
    ELSE IF ~IsDecimalChar(s[1]) THEN FALSE
    ELSE IF IntOfChar(s[1]) < 1 \/ IntOfChar(s[1]) > 5 THEN FALSE
    ELSE TRUE

bbl_to_dashed_raises(s) == Len(s) # 10

bbl_to_dashed(s) ==
    <<s[1]>> \o <<"-">> \o SubSeq(s, 2, 6) \o <<"-">> \o SubSeq(s, 7, Len(s))

bbl_from_dashed_mutant(dashed) == RemoveFirstDash(dashed)

bbl_from_dashed(dashed) == RemoveDashes(dashed)

\* re.match(r"^\d-\d{5}-\d{4}$", s) on a string without newlines.
MatchesDashedPattern(s) ==
    /\ Len(s) = 12
    /\ s[2] = "-"
    /\ s[8] = "-"
    /\ \A i \in (1..12) \ {2, 8} : IsDecimalChar(s[i])

detect_input_type(s) ==
    LET stripped == strip(s) IN
    IF MatchesDashedPattern(stripped) THEN "dashed_bbl"
    ELSE IF /\ Len(stripped) = 10
            /\ isdigit(stripped)
            /\ stripped[1] \in {"1", "2", "3", "4", "5"}
         THEN "bbl"
    ELSE "address"

\* normalize_input returns the tuple (input_type, normalized_value).  The
\* string handed to validate_bbl matched the dashed pattern, so its first
\* character is a decimal digit and validate_bbl does not raise here.
normalize_input(s) ==
    LET stripped == strip(s)
        input_type == detect_input_type(stripped)
    IN  IF input_type = "dashed_bbl"
        THEN LET normalized == bbl_from_dashed(stripped) IN
             IF ~validate_bbl(normalized) THEN <<"address", stripped>>
             ELSE <<"dashed_bbl", normalized>>
        ELSE IF input_type = "bbl" THEN <<"bbl", stripped>>
        ELSE <<"address", stripped>>

(***************************************************************************)
(* Strings the validators are applied to                                   *)
(***************************************************************************)
MaxKeyLen == 12

BaseKey == <<"1", "0", "1", "1", "1", "9", "0", "0", "3", "6">>

\* The building-key shape of the data model: exactly 10 ASCII digits, the
\* first one in 1..5.
IsKeyShape(s) ==
    /\ Len(s) = 10
    /\ \A i \in 1..10 : s[i] \in AsciiDigits
    /\ s[1] \in {"1", "2", "3", "4", "5"}

Subst(s, i, ch) == [s EXCEPT ![i] = ch]

\* BaseKey cut or padded with "7" to length n.
Resized(n) == [i \in 1..n |-> IF i <= 10 THEN BaseKey[i] ELSE "7"]

CanonicalInputs == {Subst(BaseKey, i, ch) : i \in 1..10, ch \in Alphabet}

DashedInputs ==
    {Subst(bbl_to_dashed(BaseKey), i, ch) : i \in 1..12, ch \in Alphabet}

KeyInputs ==
    CanonicalInputs \cup DashedInputs
        \cup {Resized(n) : n \in 0..MaxKeyLen}
        \cup {<<" ">> \o BaseKey \o <<" ">>, <<" ">> \o bbl_to_dashed(BaseKey)}

KvIdle ==
    [input |-> <<>>, op |-> "idle", raised |-> FALSE, valid |-> FALSE,
     itype |-> "-", text |-> <<>>]

KvStart(s) == [KvIdle EXCEPT !.input = s, !.op = "input"]

(***************************************************************************)
(* Decimal arithmetic of lib/calculations.py                               *)
(*                                                                         *)
(* Energy quantities and floor areas are integers.  A Decimal sum of       *)
(* products is held exactly as a pair <<h, r>> that stands for             *)
(* h * 10^7 + r in units of 10^-9 tCO2e, with 0 <= r < 10^7, so that h     *)
(* counts hundredths; the pair keeps every intermediate value inside the   *)
(* 32-bit integers of the model checker.  A quantized Decimal is its       *)
(* number of hundredths.                                                   *)
(***************************************************************************)
HundredthInNano == 10 ^ 7

Periods == <<"2024-2029", "2030-2034">>

\* A mutant of CARBON_COEFFICIENTS: the 2030-2034 steam coefficient is
\* above the 2024-2029 one.
CARBON_COEFFICIENTS_steam_mutant ==
    [p \in {"2024-2029", "2030-2034"} |->
        IF p = "2024-2029"
        THEN [electricity |-> 288962, natural_gas |-> 53110,
              fuel_oil |-> 74210, steam |-> 44930]
        ELSE [electricity |-> 145000, natural_gas |-> 53110,
              fuel_oil |-> 74210, steam |-> 45200]]

\* A mutant of CARBON_COEFFICIENTS: the two periods' tables are swapped.
CARBON_COEFFICIENTS_mutant ==
    [p \in {"2024-2029", "2030-2034"} |->
        IF p = "2030-2034"
        THEN [electricity |-> 288962, natural_gas |-> 53110,
              fuel_oil |-> 74210, steam |-> 44930]
        ELSE [electricity |-> 145000, natural_gas |-> 53110,
              fuel_oil |-> 74210, steam |-> 43200]]

\* Carbon coefficients in 10^-9 tCO2e per unit.
CARBON_COEFFICIENTS ==
    [p \in {"2024-2029", "2030-2034"} |->
        IF p = "2024-2029"
        THEN [electricity |-> 288962, natural_gas |-> 53110,
              fuel_oil |-> 74210, steam |-> 44930]
        ELSE [electricity |-> 145000, natural_gas |-> 53110,
              fuel_oil |-> 74210, steam |-> 43200]]

\* Emissions factors in 10^-9 tCO2e per sqft, for the use types of the
\* model; "barracks" is a use-type column that has no factor.
EMISSIONS_FACTORS ==
    [p \in {"2024-2029", "2030-2034"} |->
        IF p = "2024-2029"
        THEN [office |-> 7580000, hotel |-> 9870000]
        ELSE [office |-> 2690852, hotel |-> 3850668]]

\* The use-type columns of the model (storage.USE_TYPE_SQFT_COLUMNS).
USE_TYPE_SQFT_COLUMNS == <<"barracks_sqft", "hotel_sqft", "office_sqft">>

\* col.replace("_sqft", "")
StripSqft(col) ==
    CASE col = "barracks_sqft" -> "barracks"
      [] col = "hotel_sqft" -> "hotel"
      [] col = "office_sqft" -> "office"

UseTypeKeys == {"barracks", "hotel", "office"}

\* Exact product q * c for 0 <= q < 10^8, digit by digit.
RECURSIVE MulHi(_, _, _)
MulHi(q, c, i) ==
    IF i > 7 THEN 0
    ELSE ((((q \div (10 ^ i)) % 10) * c) \div (10 ^ (7 - i))) + MulHi(q, c, i + 1)

RECURSIVE MulLo(_, _, _)
MulLo(q, c, i) ==
    IF i > 7 THEN 0
    ELSE ((((q \div (10 ^ i)) % 10) * c) % (10 ^ (7 - i))) * (10 ^ i)
             + MulLo(q, c, i + 1)

DecNorm(h, r) == <<h + (r \div HundredthInNano), r % HundredthInNano>>

DecNeg(a) == IF a[2] = 0 THEN <<-a[1], 0>> ELSE <<-a[1] - 1, HundredthInNano - a[2]>>

DecMul(q, c) ==
    IF q >= 0 THEN DecNorm(MulHi(q, c, 0), MulLo(q, c, 0))
    ELSE DecNeg(DecNorm(MulHi(-q, c, 0), MulLo(-q, c, 0)))

DecAdd(a, b) == DecNorm(a[1] + b[1], a[2] + b[2])

DecSub(a, b) == DecAdd(a, DecNeg(b))

\* quantize(Decimal("0.01"), rounding=ROUND_HALF_UP): ties go away from zero.
QuantizeHalfUp(a) ==
    IF a[1] >= 0
    THEN (IF a[2] >= 5 * 10 ^ 6 THEN a[1] + 1 ELSE a[1])
    ELSE (IF a[2] > 5 * 10 ^ 6 THEN a[1] + 1 ELSE a[1])

\* x or 0
OrZero(x) == IF x = None THEN 0 ELSE x[1]

\* x and x > 0
PositiveQuantity(x) == x # None /\ x[1] # 0 /\ x[1] > 0

\* The exact sum of the four products.
GhgExact(electricity_kwh, natural_gas_kbtu, fuel_oil_kbtu, steam_kbtu, period) ==
    LET coeffs == CARBON_COEFFICIENTS[period] IN
    DecAdd(DecAdd(DecAdd(DecMul(OrZero(electricity_kwh), coeffs.electricity),
                         DecMul(OrZero(natural_gas_kbtu), coeffs.natural_gas)),
                  DecMul(OrZero(fuel_oil_kbtu), coeffs.fuel_oil)),
           DecMul(OrZero(steam_kbtu), coeffs.steam))

\* A mutant of calculate_ghg_emissions: the steam term is subtracted.
calculate_ghg_emissions_mutant(electricity_kwh, natural_gas_kbtu, fuel_oil_kbtu, steam_kbtu, period) ==
    LET coeffs == CARBON_COEFFICIENTS[period] IN
    QuantizeHalfUp(
        DecSub(DecAdd(DecAdd(DecMul(OrZero(electricity_kwh), coeffs.electricity),
                             DecMul(OrZero(natural_gas_kbtu), coeffs.natural_gas)),
                      DecMul(OrZero(fuel_oil_kbtu), coeffs.fuel_oil)),
               DecMul(OrZero(steam_kbtu), coeffs.steam)))

calculate_ghg_emissions(electricity_kwh, natural_gas_kbtu, fuel_oil_kbtu, steam_kbtu, period) ==
    QuantizeHalfUp(GhgExact(electricity_kwh, natural_gas_kbtu, fuel_oil_kbtu,
                            steam_kbtu, period))

\* The exact limit: the loop over use_type_sqft.items(), skipping entries
\* that are None, zero or negative and use types without a factor.
RECURSIVE LimitExact(_, _, _)
LimitExact(use_type_sqft, period, keys) ==
    IF keys = {} THEN <<0, 0>>
    ELSE LET use_type == CHOOSE k \in keys : TRUE
             sqft == use_type_sqft[use_type]
             rest == LimitExact(use_type_sqft, period, keys \ {use_type})
         IN  IF ~PositiveQuantity(sqft) THEN rest
             ELSE IF use_type \notin DOMAIN EMISSIONS_FACTORS[period] THEN rest
             ELSE DecAdd(DecMul(sqft[1], EMISSIONS_FACTORS[period][use_type]), rest)

calculate_emissions_limit_mutant(use_type_sqft, period) ==
    LimitExact(use_type_sqft, period, DOMAIN use_type_sqft)[1]

calculate_emissions_limit(use_type_sqft, period) ==
    QuantizeHalfUp(LimitExact(use_type_sqft, period, DOMAIN use_type_sqft))

PenaltyPerTco2e == 268

\* A mutant of has_energy_data: tests "is not None" instead of "> 0".
has_energy_data_mutant(electricity_kwh, natural_gas_kbtu, fuel_oil_kbtu, steam_kbtu) ==
    \E x \in {electricity_kwh, natural_gas_kbtu, fuel_oil_kbtu, steam_kbtu} :
        x # None

has_energy_data(electricity_kwh, natural_gas_kbtu, fuel_oil_kbtu, steam_kbtu) ==
    \E x \in {electricity_kwh, natural_gas_kbtu, fuel_oil_kbtu, steam_kbtu} :
        PositiveQuantity(x)

Max(a, b) == IF a >= b THEN a ELSE b

\* A mutant of PenaltyOf: the excess is taken from the unrounded values.
PenaltyOf_mutant(electricity_kwh, natural_gas_kbtu, fuel_oil_kbtu, steam_kbtu, use_type_sqft, period) ==
    LET excess == DecSub(GhgExact(electricity_kwh, natural_gas_kbtu, fuel_oil_kbtu,
                                  steam_kbtu, period),
                         LimitExact(use_type_sqft, period, DOMAIN use_type_sqft))
    IN  IF excess[1] < 0 THEN 0
        ELSE QuantizeHalfUp(DecAdd(<<excess[1] * PenaltyPerTco2e, 0>>,
                                   DecMul(excess[2], PenaltyPerTco2e)))

\* Step 3 of the loop body: max(ghg - limit, 0) * 268, quantized.
PenaltyOf(electricity_kwh, natural_gas_kbtu, fuel_oil_kbtu, steam_kbtu, use_type_sqft, period) ==
    LET ghg == calculate_ghg_emissions(electricity_kwh, natural_gas_kbtu,
                                       fuel_oil_kbtu, steam_kbtu, period)
        limit == calculate_emissions_limit(use_type_sqft, period)
        excess == ghg - limit
    IN  QuantizeHalfUp(<<Max(excess, 0) * PenaltyPerTco2e, 0>>)

PenaltyKeys ==
    {"ghg_emissions_2024_2029", "emissions_limit_2024_2029", "penalty_2024_2029",
     "ghg_emissions_2030_2034", "emissions_limit_2030_2034", "penalty_2030_2034"}

AllNonePenalty == [k \in PenaltyKeys |-> None]

IsGhgKey(k) == k \in {"ghg_emissions_2024_2029", "ghg_emissions_2030_2034"}

IsLimitKey(k) == k \in {"emissions_limit_2024_2029", "emissions_limit_2030_2034"}

\* period.replace("-", "_") read backwards: the period a result key belongs to.
PeriodOfKey(k) ==
    IF k \in {"ghg_emissions_2024_2029", "emissions_limit_2024_2029",
              "penalty_2024_2029"}
    THEN "2024-2029" ELSE "2030-2034"

calculate_ll97_penalty(electricity_kwh, natural_gas_kbtu, fuel_oil_kbtu, steam_kbtu, use_type_sqft) ==
    IF ~has_energy_data(electricity_kwh, natural_gas_kbtu, fuel_oil_kbtu, steam_kbtu)
    THEN AllNonePenalty
    ELSE [k \in PenaltyKeys |->
            IF IsGhgKey(k)
            THEN Some(calculate_ghg_emissions(electricity_kwh, natural_gas_kbtu,
                                              fuel_oil_kbtu, steam_kbtu, PeriodOfKey(k)))
            ELSE IF IsLimitKey(k)
            THEN Some(calculate_emissions_limit(use_type_sqft, PeriodOfKey(k)))
            ELSE Some(PenaltyOf(electricity_kwh, natural_gas_kbtu, fuel_oil_kbtu,
                                steam_kbtu, use_type_sqft, PeriodOfKey(k)))]

\* building_data.get(col)
DictGet(building_data, col) ==
    IF col \in DOMAIN building_data THEN building_data[col] ELSE None

\* extract_use_type_sqft: one entry per use-type column of the record whose
\* value is > 0, under the name of the column without "_sqft".
extract_use_type_sqft_mutant(building_data) ==
    LET cols == {USE_TYPE_SQFT_COLUMNS[i] : i \in 1..Len(USE_TYPE_SQFT_COLUMNS)}
        kept == {c \in cols : DictGet(building_data, c) # None
                                 /\ DictGet(building_data, c)[1] >= 0}
    IN  [k \in {StripSqft(c) : c \in kept} |->
            building_data[CHOOSE c \in kept : StripSqft(c) = k]]

extract_use_type_sqft(building_data) ==
    LET cols == {USE_TYPE_SQFT_COLUMNS[i] : i \in 1..Len(USE_TYPE_SQFT_COLUMNS)}
        kept == {c \in cols : PositiveQuantity(DictGet(building_data, c))}
    IN  [k \in {StripSqft(c) : c \in kept} |->
            building_data[CHOOSE c \in kept : StripSqft(c) = k]]

(***************************************************************************)
(* lib/waterfall.py: _query_ll87                                           *)
(*                                                                         *)
(* A row of ll87_raw is [id, bbl, audit_template_id, reporting_period];    *)
(* id is the serial primary key and stands for the row's raw_data too.     *)
(* The loaders store an integer audit_template_id (0 when the source has   *)
(* none) and one of the two period labels.                                 *)
(***************************************************************************)
\* CASE WHEN reporting_period = '2019-2024' THEN 1 ELSE 2 END
PeriodRank(row) == IF row.reporting_period = "2019-2024" THEN 1 ELSE 2

\* row a sorts before row b under
\* ORDER BY bbl, CASE ... END, audit_template_id DESC
SortsBefore(a, b) ==
    \/ PeriodRank(a) < PeriodRank(b)
    \/ PeriodRank(a) = PeriodRank(b) /\ a.audit_template_id > b.audit_template_id

\* A mutant of Ll87Candidates: orders by audit_template_id DESC only.
Ll87Candidates_mutant(table, key) ==
    LET rows == {r \in table : r.bbl = key} IN
    {r \in rows : \A o \in rows : r.audit_template_id >= o.audit_template_id}

\* The rows that SELECT DISTINCT ON (bbl) ... WHERE bbl = %s ORDER BY ... may
\* return first: no row of the key sorts before them.  Rows that tie on
\* period and audit id are returned in an order the query does not fix.
Ll87Candidates(table, key) ==
    LET rows == {r \in table : r.bbl = key} IN
    {r \in rows : \A o \in rows : ~SortsBefore(o, r)}

\* The dict _query_ll87 builds from the fetched row.
Ll87Dict(row) ==
    [ll87_audit_id |-> Some(row.audit_template_id),
     ll87_period |-> Some(row.reporting_period),
     ll87_raw |-> Some(row.id)]

(***************************************************************************)
(* Tables _query_ll87 is applied to                                        *)
(***************************************************************************)
MaxAuditId == 2

MaxAuditRows == 3

OtherKey == Subst(BaseKey, 10, "7")

AuditPeriods == {"2019-2024", "2012-2018"}

AuditRow(id, key, audit_id, period) ==
    [id |-> id, bbl |-> key, audit_template_id |-> audit_id, reporting_period |-> period]

\* One row per period and audit id for the key, a second row that ties with
\* the newest one, and a row of another key with a higher audit id.
AuditRowUniverse ==
    {AuditRow(10 * a + (IF p = "2019-2024" THEN 1 ELSE 2), BaseKey, a, p) :
        a \in 0..MaxAuditId, p \in AuditPeriods}
      \cup {AuditRow(10 * MaxAuditId + 3, BaseKey, MaxAuditId, "2019-2024"),
            AuditRow(10 * MaxAuditId + 14, OtherKey, MaxAuditId + 1, "2019-2024")}

AuditTables == {t \in SUBSET AuditRowUniverse : Cardinality(t) <= MaxAuditRows}

AuIdle == [table |-> {}, key |-> <<>>, op |-> "idle", selected |-> None]

(***************************************************************************)
(* Dicts of lib/waterfall.py                                               *)
(*                                                                         *)
(* A dict is a function from its possible keys to optional values; a key   *)
(* that is not set reads as None, as with dict.get.                        *)
(***************************************************************************)
NARRATIVE_CATEGORIES ==
    <<"Building Envelope", "Heating System", "Cooling System",
      "Air Distribution System", "Ventilation System", "Domestic Hot Water System">>

\* narrative_map: category -> DB column
narrative_map ==
    [c \in {NARRATIVE_CATEGORIES[i] : i \in 1..6} |->
        CASE c = "Building Envelope" -> "envelope_narrative"
          [] c = "Heating System" -> "heating_narrative"
          [] c = "Cooling System" -> "cooling_narrative"
          [] c = "Air Distribution System" -> "air_distribution_narrative"
          [] c = "Ventilation System" -> "ventilation_narrative"
          [] c = "Domestic Hot Water System" -> "dhw_narrative"]

NarrativeColumns == {narrative_map[c] : c \in DOMAIN narrative_map}

EnergyKeys == {"electricity_kwh", "natural_gas_kbtu", "fuel_oil_kbtu", "steam_kbtu"}

UseTypeColumns == {USE_TYPE_SQFT_COLUMNS[i] : i \in 1..Len(USE_TYPE_SQFT_COLUMNS)}

\* The internal names of LL84_FIELD_MAP, for the use types of the model.
Ll84Keys ==
    {"year_built", "property_type", "gfa", "site_eui", "energy_star_score",
     "supermarket_grocery_sqft"}
        \cup EnergyKeys \cup UseTypeColumns

\* The columns of table building_metrics, for the use types of the model.
BuildingMetricsColumns ==
    {"bbl", "bin", "address", "zip_code", "compliance_pathway", "year_built",
     "property_type", "gfa", "energy_star_score", "site_eui", "ll87_audit_id",
     "ll87_period", "data_source"}
        \cup EnergyKeys \cup UseTypeColumns \cup PenaltyKeys \cup NarrativeColumns

\* exclude_keys of the final save
exclude_keys == {"ll87_raw"} \cup DOMAIN narrative_map

\* Every key the run may set in result.
ResultKeys ==
    BuildingMetricsColumns
        \cup exclude_keys
        \cup {"gfa_calculated", "_ll97_query_raw", "input_type", "resolved_bbl",
              "resolved_from_address", "geosearch_confidence",
              "supermarket_grocery_sqft"}

\* k.startswith('_')
StartsWithUnderscore(k) == k = "_ll97_query_raw"

EmptyDict == [k \in ResultKeys |-> None]

\* dict.update: the keys of d are set in r, also to None.
Update(r, d) == [k \in DOMAIN r |-> IF k \in DOMAIN d THEN d[k] ELSE r[k]]

\* The truth value of an optional value whose values are never 0 or "".
Truthy(x) == x # None

\* item in data_sources
InList(item, list) == \E i \in 1..Len(list) : list[i] = item

(***************************************************************************)
(* What the sources return                                                 *)
(***************************************************************************)
BIN1 == "1001389"

\* Rows of ll97_covered_buildings for the key: preliminary_bin, address,
\* zip_code and the five pathway flags.
Ll97Rows ==
    {[bin |-> Some(BIN1), address |-> Some("120 BROADWAY"), zip_code |-> Some("10271"),
      flags |-> <<TRUE, FALSE, TRUE, FALSE, FALSE>>],
     [bin |-> None, address |-> Some("120 BROADWAY"), zip_code |-> Some("10271"),
      flags |-> <<FALSE, FALSE, FALSE, FALSE, FALSE>>]}

PathwayNames ==
    <<"CP0 (2024)", "CP1 (2026)", "CP2 (2035)", "CP3 (One-Time)", "CP4 (City Portfolio)">>

\* The names of the active flags, in flag order (the label joins them).
RECURSIVE PathwaysFrom(_, _)
PathwaysFrom(flags, i) ==
    IF i > 5 THEN <<>>
    ELSE (IF flags[i] THEN <<PathwayNames[i]>> ELSE <<>>) \o PathwaysFrom(flags, i + 1)

compliance_pathway(flags) ==
    IF PathwaysFrom(flags, 1) # <<>> THEN PathwaysFrom(flags, 1) ELSE <<"None assigned">>

\* The dict _query_ll97 builds from a row.
Ll97Dict(key, row) ==
    [bbl |-> Some(key), bin |-> row.bin, address |-> row.address,
     zip_code |-> row.zip_code,
     compliance_pathway |-> Some(compliance_pathway(row.flags)),
     _ll97_query_raw |-> Some("raw")]

\* mapped_data of call_pluto_api, with and without an address.
PlutoRows ==
    {[year_built |-> Some(1915), num_floors |-> Some(40), gfa |-> Some(850000),
      owner_name |-> Some("OWNER"), address |-> Some("120 BDWY"),
      zip_code |-> Some("10005")],
     [year_built |-> Some(1915), num_floors |-> Some(40), gfa |-> Some(850000),
      owner_name |-> Some("OWNER"), address |-> None, zip_code |-> Some("10005")]}

\* The first feature of a GeoSearch response (None: no features or a failed
\* request); confidence in tenths, 0 when the property is missing.
GeoResponses ==
    {None,
     Some([confidence |-> 0, bbl |-> Some(BaseKey), bin |-> Some("1001390")]),
     Some([confidence |-> 7, bbl |-> Some(BaseKey), bin |-> Some("1001390")]),
     Some([confidence |-> 8, bbl |-> Some(BaseKey), bin |-> Some("1001390")]),
     Some([confidence |-> 10, bbl |-> None, bin |-> None])}

MinConfidence == 8

\* call_geosearch_api: None on a failed request, no feature or a confidence
\* below 0.8, else the dict of the first feature.
call_geosearch_api_mutant(response) ==
    IF response = None THEN None
    ELSE IF response[1].confidence <= MinConfidence THEN None
    ELSE Some([bbl |-> response[1].bbl, bin |-> response[1].bin,
               confidence |-> Some(response[1].confidence)])

call_geosearch_api(response) ==
    IF response = None THEN None
    ELSE IF response[1].confidence < MinConfidence THEN None
    ELSE Some([bbl |-> response[1].bbl, bin |-> response[1].bin,
               confidence |-> Some(response[1].confidence)])

Ll84Dict(year_built, gfa, electricity_kwh, natural_gas_kbtu, fuel_oil_kbtu, steam_kbtu, barracks_sqft, hotel_sqft, office_sqft) ==
    [year_built |-> year_built, property_type |-> Some("Office"), gfa |-> gfa,
     site_eui |-> None, energy_star_score |-> None,
     electricity_kwh |-> electricity_kwh, natural_gas_kbtu |-> natural_gas_kbtu,
     fuel_oil_kbtu |-> fuel_oil_kbtu, steam_kbtu |-> steam_kbtu,
     barracks_sqft |-> barracks_sqft, hotel_sqft |-> hotel_sqft,
     office_sqft |-> office_sqft, supermarket_grocery_sqft |-> None]

\* mapped_data of an LL84 row: the literal scenario, a row without energy
\* readings, a row with so little energy that no penalty is due, and (below)
\* a row without use-type areas.
Ll84Full ==
    Ll84Dict(Some(1915), Some(900000), Some(10000000), Some(5000000), Some(0), None,
             Some(50000), None, Some(100000))

Ll84NoEnergy ==
    Ll84Dict(None, None, None, Some(0), None, None, None, Some(30000), Some(100000))

Ll84Small ==
    Ll84Dict(Some(1915), Some(900000), Some(1000), None, None, None, None, None,
             Some(100000))

Ll84NoArea ==
    Ll84Dict(Some(1915), Some(900000), Some(1000), None, None, None, None, None, None)

\* A row with a supermarket area: LL84_FIELD_MAP names it
\* 'supermarket_grocery_sqft', which is no name of USE_TYPE_SQFT_COLUMNS.
Ll84Supermarket == [Ll84Small EXCEPT !.supermarket_grocery_sqft = Some(20000)]

\* What the LL84 dataset holds: the mapped row found by the key, and the row
\* found by the BIN with the key that row carries.
Ll84Datasets ==
    {[by_bbl |-> b, by_bin |-> None] : b \in {Some(Ll84Full), Some(Ll84NoEnergy), Some(Ll84Small), Some(Ll84NoArea),
                  Some(Ll84Supermarket)}}
      \cup {[by_bbl |-> None, by_bin |-> n] :
               n \in {None, Some([bbl |-> BaseKey, data |-> Ll84Full]),
                      Some([bbl |-> OtherKey, data |-> Ll84Full])}}

\* The ll87_raw tables of a run.
OrchAuditTables ==
    {{},
     {AuditRow(2, BaseKey, MaxAuditId, "2012-2018"), AuditRow(1, BaseKey, 0, "2019-2024")},
     {AuditRow(14, OtherKey, 1, "2019-2024")}}

(***************************************************************************)
(* Inputs the penalty engine is applied to                                 *)
(***************************************************************************)
MaxEnergyUnits == 2

EnergyUnit == 5000000

\* None, zero, a negative reading, 1000 (0.145 tCO2e of 2030-2034
\* electricity: a rounding tie) and multiples of EnergyUnit.
EnergyValues ==
    {None, Some(0), Some(-1000), Some(1000)}
        \cup {Some(k * EnergyUnit) : k \in 1..MaxEnergyUnits}

AreaDict(barracks, hotel, office) ==
    [k \in UseTypeKeys |->
        IF k = "barracks" THEN barracks ELSE IF k = "hotel" THEN hotel ELSE office]

AreaInputs ==
    {AreaDict(None, None, None),
     AreaDict(None, None, Some(100000)),
     AreaDict(Some(50000), None, Some(0)),
     AreaDict(Some(50000), Some(30000), Some(100000))}

\* Fuel oil and steam take the small values only.
MinorEnergyValues == {None, Some(0), Some(-1000), Some(1000)}

Fuels == {"electricity_kwh", "natural_gas_kbtu", "fuel_oil_kbtu", "steam_kbtu"}

FuelValues(fuel) ==
    IF fuel \in {"electricity_kwh", "natural_gas_kbtu"} THEN EnergyValues
    ELSE IF fuel = "steam_kbtu" THEN MinorEnergyValues
    ELSE MinorEnergyValues \ {Some(-1000)}

PeIdle ==
    [electricity_kwh |-> None, natural_gas_kbtu |-> None, fuel_oil_kbtu |-> None,
     steam_kbtu |-> None, use_type_sqft |-> AreaDict(None, None, None),
     building_data |-> <<>>,
     op |-> "idle", result |-> AllNonePenalty, prev |-> AllNonePenalty]

PeCall(p) ==
    calculate_ll97_penalty(p.electricity_kwh, p.natural_gas_kbtu, p.fuel_oil_kbtu,
                           p.steam_kbtu, p.use_type_sqft)

\* All six fields of a penalty result are set.
PenaltyPresent(r) == \A k \in PenaltyKeys : r[k] # None

\* All six fields of a penalty result are None.
PenaltyAbsent(r) == \A k \in PenaltyKeys : r[k] = None

NetIdle == [source |-> "-", responses |-> <<>>, attempts |-> 0, outcome |-> "idle"]

CcIdle == <<>>

UpIdle == <<>>

RunIdle ==
    /\ pc = "idle"
    /\ user_input = <<>>
    /\ frame = <<>>
    /\ bbl = <<>>
    /\ result = <<>>
    /\ data_sources = <<>>
    /\ queried = <<>>
    /\ exc = "none"
    /\ ll84_dataset = <<>>
    /\ ll87_raw_table = {}
    /\ building_metrics = <<>>
    /\ writes = <<>>

OrchIdle ==
    /\ net = NetIdle
    /\ cc = CcIdle
    /\ up = UpIdle
    /\ RunIdle

RunUnchanged ==
    UNCHANGED <<pc, user_input, frame, bbl, result, data_sources, queried, exc,
                ll84_dataset, ll87_raw_table, building_metrics, writes>>

OrchUnchanged == RunUnchanged /\ UNCHANGED <<net, cc, up>>

(***************************************************************************)
(* SpecKey: the validators applied to one string                           *)
(***************************************************************************)
KeyInit ==
    /\ kv \in {KvStart(s) : s \in KeyInputs}
    /\ pe = PeIdle
    /\ au = AuIdle
    /\ OrchIdle

\* validate_bbl(input)
KeyValidate ==
    /\ kv.op = "input"
    /\ kv' = [kv EXCEPT !.op = "validate_bbl",
                        !.raised = validate_bbl_raises(kv.input),
                        !.valid = validate_bbl(kv.input)]
    /\ UNCHANGED <<pe, au>>
    /\ OrchUnchanged

\* bbl_to_dashed(input)
KeyToDashed ==
    /\ kv.op = "input"
    /\ kv' = [kv EXCEPT !.op = "bbl_to_dashed",
                        !.raised = bbl_to_dashed_raises(kv.input),
                        !.text = IF bbl_to_dashed_raises(kv.input) THEN <<>>
                                 ELSE bbl_to_dashed(kv.input)]
    /\ UNCHANGED <<pe, au>>
    /\ OrchUnchanged

\* bbl_from_dashed applied to the dashed form just produced
KeyFromDashed ==
    /\ kv.op = "bbl_to_dashed"
    /\ ~kv.raised
    /\ kv' = [kv EXCEPT !.op = "bbl_from_dashed", !.text = bbl_from_dashed(kv.text)]
    /\ UNCHANGED <<pe, au>>
    /\ OrchUnchanged

\* normalize_input(input)
KeyNormalize ==
    /\ kv.op = "input"
    /\ kv' = [kv EXCEPT !.op = "normalize_input",
                        !.itype = normalize_input(kv.input)[1],
                        !.text = normalize_input(kv.input)[2]]
    /\ UNCHANGED <<pe, au>>
    /\ OrchUnchanged

\* normalize_input applied to the dashed form just produced
KeyNormalizeDashed ==
    /\ kv.op = "bbl_to_dashed"
    /\ ~kv.raised
    /\ kv' = [kv EXCEPT !.op = "normalize_dashed",
                        !.itype = normalize_input(kv.text)[1],
                        !.text = normalize_input(kv.text)[2]]
    /\ UNCHANGED <<pe, au>>
    /\ OrchUnchanged

KeyNext ==
    \/ KeyValidate
    \/ KeyToDashed
    \/ KeyFromDashed
    \/ KeyNormalize
    \/ KeyNormalizeDashed

SpecKey == KeyInit /\ [][KeyNext]_vars

(***************************************************************************)
(* SpecPenalty: calculate_ll97_penalty called, then called again with one  *)
(* energy quantity raised                                                  *)
(***************************************************************************)
PenaltyInit ==
    /\ kv = KvIdle
    /\ au = AuIdle
    /\ pe \in {[PeIdle EXCEPT !.electricity_kwh = e, !.natural_gas_kbtu = g,
                              !.fuel_oil_kbtu = o, !.steam_kbtu = s,
                              !.use_type_sqft = a, !.op = "input"] :
                  e \in FuelValues("electricity_kwh"),
                  g \in FuelValues("natural_gas_kbtu"),
                  o \in FuelValues("fuel_oil_kbtu"),
                  s \in FuelValues("steam_kbtu"), a \in AreaInputs}
    /\ OrchIdle

PenaltyCalculate ==
    /\ pe.op = "input"
    /\ pe' = [pe EXCEPT !.op = "called", !.result = PeCall(pe)]
    /\ UNCHANGED <<kv, au>>
    /\ OrchUnchanged

PenaltyRaise ==
    /\ pe.op \in {"called", "recalled"}
    /\ \E fuel \in Fuels, v \in EnergyValues :
          /\ v \in FuelValues(fuel)
          /\ v # None
          /\ pe[fuel] # None
          /\ v[1] > pe[fuel][1]
          /\ pe' = [pe EXCEPT ![fuel] = v, !.op = "recalled", !.prev = pe.result,
                              !.result = PeCall([pe EXCEPT ![fuel] = v])]
    /\ UNCHANGED <<kv, au>>
    /\ OrchUnchanged

PenaltyNext ==
    \/ PenaltyCalculate
    \/ PenaltyRaise

SpecPenalty == PenaltyInit /\ [][PenaltyNext]_vars

(***************************************************************************)
(* SpecExtract: extract_use_type_sqft applied to one building record       *)
(***************************************************************************)
\* What a use-type column of a record may hold: None, zero, a negative or a
\* positive area.
SqftValues == {None, Some(0), Some(-30000), Some(30000), Some(50000)}

\* A building record: the key, the self-reported area and a floor area of
\* LL84 that is no use-type column, and the use-type columns in present.
BuildingRecord(present, barracks, hotel, office) ==
    LET given == [barracks_sqft |-> barracks, hotel_sqft |-> hotel,
                  office_sqft |-> office]
        other == [bbl |-> Some(BaseKey), gfa |-> Some(80000),
                  supermarket_grocery_sqft |-> Some(20000)]
    IN  [k \in DOMAIN other \cup present |->
            IF k \in DOMAIN other THEN other[k] ELSE given[k]]

BuildingRecords ==
    {BuildingRecord(present, b, h, o) :
        present \in SUBSET {"barracks_sqft", "hotel_sqft", "office_sqft"},
        b \in SqftValues, h \in SqftValues, o \in SqftValues}

ExtractInit ==
    /\ kv = KvIdle
    /\ au = AuIdle
    /\ pe \in {[PeIdle EXCEPT !.building_data = b, !.op = "record"] :
                  b \in BuildingRecords}
    /\ OrchIdle

ExtractUseTypes ==
    /\ pe.op = "record"
    /\ pe' = [pe EXCEPT !.use_type_sqft = extract_use_type_sqft(pe.building_data),
                        !.op = "extracted"]
    /\ UNCHANGED <<kv, au>>
    /\ OrchUnchanged

ExtractNext == ExtractUseTypes

SpecExtract == ExtractInit /\ [][ExtractNext]_vars

(***************************************************************************)
(* SpecAudit: _query_ll87 applied to one table                             *)
(***************************************************************************)
AuditInit ==
    /\ kv = KvIdle
    /\ pe = PeIdle
    /\ au \in {[AuIdle EXCEPT !.table = t, !.key = BaseKey, !.op = "input"] :
                  t \in AuditTables}
    /\ OrchIdle

\* cursor.fetchone() returns a row
AuditQueryHit ==
    /\ au.op = "input"
    /\ \E row \in Ll87Candidates(au.table, au.key) :
          au' = [au EXCEPT !.op = "queried", !.selected = Some(Ll87Dict(row))]
    /\ UNCHANGED <<kv, pe>>
    /\ OrchUnchanged

\* cursor.fetchone() returns no row
AuditQueryMiss ==
    /\ au.op = "input"
    /\ Ll87Candidates(au.table, au.key) = {}
    /\ au' = [au EXCEPT !.op = "queried", !.selected = None]
    /\ UNCHANGED <<kv, pe>>
    /\ OrchUnchanged

AuditNext ==
    \/ AuditQueryHit
    \/ AuditQueryMiss

SpecAudit == AuditInit /\ [][AuditNext]_vars

(***************************************************************************)
(* Specification Spec: one run of resolve_and_fetch                        *)
(*                                                                         *)
(* pc follows the run: "entry", the lookups of Step 1 ("step1_ll97",       *)
(* "step1_pluto", "step1_geosearch"), of Step 2 ("step2_ll84_bbl",         *)
(* "step2_ll84_bin", "step2_pluto"), "step3", "step4", "step5",            *)
(* "finalize", "resolve_tail", and the ends "returned" and "raised".       *)
(***************************************************************************)
Address == <<"1", " ", "a">>

\* The inputs of the runs: the key, its dashed form, a key whose first digit
\* is 6, a dashed key whose first digit is 0, a key with a superscript two,
\* and an address.
OrchInputs ==
    {BaseKey, bbl_to_dashed(BaseKey), Subst(BaseKey, 1, "6"),
     Subst(bbl_to_dashed(BaseKey), 1, "0"), Subst(BaseKey, 2, "sup2"), Address}

EmptyRow == [c \in BuildingMetricsColumns |-> None]

\* The row an earlier run left for the key.
StaleRow ==
    [c \in BuildingMetricsColumns |->
        CASE c = "bbl" -> Some(BaseKey)
          [] c = "year_built" -> Some(1900)
          [] c = "address" -> Some("1 OLD ADDRESS")
          [] c \in PenaltyKeys -> Some(99900)
          [] c \in NarrativeColumns -> Some("old narrative")
          [] c = "data_source" -> Some(<<"ll97", ",", "calculated", ",", "narratives">>)
          [] OTHER -> None]

Init ==
    /\ kv = KvIdle
    /\ pe = PeIdle
    /\ au = AuIdle
    /\ net = NetIdle
    /\ cc = CcIdle
    /\ up = UpIdle
    /\ pc = "entry"
    /\ user_input \in OrchInputs
    /\ frame \in {[save_to_db |-> s, input_type |-> "-", normalized |-> <<>>,
                   geosearch_data |-> None, geosearch_response |-> None,
                   failed_narratives |-> {}] :
                     s \in BOOLEAN}
    /\ bbl = <<>>
    /\ result = EmptyDict
    /\ data_sources = <<>>
    /\ queried = <<>>
    /\ exc = "none"
    /\ ll84_dataset \in Ll84Datasets
    /\ ll87_raw_table \in OrchAuditTables
    /\ building_metrics \in {EmptyRow, StaleRow}
    /\ writes = <<>>

\* raise: the exception leaves resolve_and_fetch.
Raise(e) ==
    /\ pc' = "raised"
    /\ exc' = e

\* fetch_building_waterfall(key, save_to_db) starts: result = {'bbl': bbl},
\* data_sources = [].
EnterWaterfall(key) ==
    /\ pc' = "step1_ll97"
    /\ bbl' = key
    /\ result' = Update(EmptyDict, [bbl |-> Some(key)])
    /\ data_sources' = <<>>
    /\ exc' = exc

\* resolve_and_fetch up to the call of fetch_building_waterfall: the input is
\* normalized; a key is validated; an address is resolved through GeoSearch.
ResolveAndFetch ==
    /\ pc = "entry"
    /\ LET n == normalize_input(user_input) IN
       IF n[1] \in {"bbl", "dashed_bbl"}
       THEN /\ frame' = [frame EXCEPT !.input_type = n[1], !.normalized = n[2]]
            /\ queried' = queried
            /\ IF validate_bbl_raises(n[2]) \/ ~validate_bbl(n[2])
               THEN Raise("ValueError") /\ UNCHANGED <<bbl, result, data_sources>>
               ELSE EnterWaterfall(n[2])
       ELSE \E response \in GeoResponses :
              LET geosearch_data == call_geosearch_api(response) IN
              /\ queried' = Append(queried, "geosearch")
              /\ frame' = [frame EXCEPT !.input_type = "address", !.normalized = n[2],
                                        !.geosearch_data = geosearch_data]
              /\ IF geosearch_data = None \/ geosearch_data[1].bbl = None
                 THEN Raise("ValueError") /\ UNCHANGED <<bbl, result, data_sources>>
                 ELSE EnterWaterfall(geosearch_data[1].bbl[1])
    /\ UNCHANGED <<kv, pe, au, net, cc, up, user_input, ll84_dataset, ll87_raw_table,
                   building_metrics, writes>>

\* Step 1, "if ll97_data: ... else:": Step 2 follows a hit, the PLUTO ->
\* GeoSearch chain a miss.
AfterLl97_mutant(ll97_data) == "step1_pluto"

AfterLl97(ll97_data) == IF ll97_data # None THEN "step2_ll84_bbl" ELSE "step1_pluto"

\* Step 1, _query_ll97(bbl): a database error leaves the run; a row is merged
\* and Step 2 follows; without a row the fallback chain follows.
Step1Ll97 ==
    /\ pc = "step1_ll97"
    /\ queried' = Append(queried, "ll97")
    /\ \E fails \in BOOLEAN, row \in {None} \cup {Some(r) : r \in Ll97Rows} :
         IF fails
         THEN Raise("DatabaseError") /\ UNCHANGED <<result, data_sources>>
         ELSE IF row # None
         THEN /\ result' = Update(result, Ll97Dict(bbl, row[1]))
              /\ data_sources' = Append(data_sources, "ll97")
              /\ pc' = AfterLl97(row)
              /\ exc' = exc
         ELSE /\ pc' = AfterLl97(row)
              /\ UNCHANGED <<result, data_sources, exc>>
    /\ UNCHANGED <<kv, pe, au, net, cc, up, user_input, frame, bbl, ll84_dataset, ll87_raw_table,
                   building_metrics, writes>>

\* call_pluto_api(bbl): None when the key fails validate_bbl (no request is
\* made), when the request fails or when no lot is found.
PlutoResponses(key) ==
    IF validate_bbl_raises(key) \/ ~validate_bbl(key) THEN {None}
    ELSE {None} \cup {Some(r) : r \in PlutoRows}

PlutoQueried(key) ==
    IF validate_bbl_raises(key) \/ ~validate_bbl(key) THEN <<>> ELSE <<"pluto">>

\* "if pluto_data and pluto_data.get('address')": GeoSearch follows PLUTO
\* only when PLUTO gave an address; otherwise Step 2 follows.
AfterPluto_mutant(pluto_data) ==
    IF pluto_data # None THEN "step1_geosearch" ELSE "step2_ll84_bbl"

AfterPluto(pluto_data) ==
    IF pluto_data # None /\ Truthy(pluto_data[1].address)
    THEN "step1_geosearch" ELSE "step2_ll84_bbl"

\* Step 1, LL97 miss: call_pluto_api(bbl).
Step1Pluto ==
    /\ pc = "step1_pluto"
    /\ queried' = queried \o PlutoQueried(bbl)
    /\ \E pluto_data \in PlutoResponses(bbl) :
         IF pluto_data # None /\ Truthy(pluto_data[1].address)
         THEN /\ result' = Update(result, [year_built |-> pluto_data[1].year_built,
                                            gfa |-> pluto_data[1].gfa,
                                            address |-> pluto_data[1].address,
                                            zip_code |-> pluto_data[1].zip_code])
              /\ data_sources' = Append(data_sources, "pluto")
              /\ pc' = AfterPluto(pluto_data)
         ELSE IF pluto_data # None
         THEN /\ result' = Update(result, [year_built |-> pluto_data[1].year_built,
                                            gfa |-> pluto_data[1].gfa,
                                            zip_code |-> pluto_data[1].zip_code])
              /\ data_sources' = Append(data_sources, "pluto")
              /\ pc' = AfterPluto(pluto_data)
         ELSE /\ pc' = AfterPluto(pluto_data)
              /\ UNCHANGED <<result, data_sources>>
    /\ UNCHANGED <<kv, pe, au, net, cc, up, user_input, frame, bbl, exc, ll84_dataset,
                   ll87_raw_table, building_metrics, writes>>

\* Step 1, PLUTO gave an address: call_geosearch_api(pluto_address).
Step1GeoSearch ==
    /\ pc = "step1_geosearch"
    /\ queried' = Append(queried, "geosearch")
    /\ \E response \in GeoResponses :
         LET geosearch_data == call_geosearch_api(response) IN
         /\ frame' = [frame EXCEPT !.geosearch_response = response]
         /\ IF geosearch_data # None /\ Truthy(geosearch_data[1].bin)
            THEN /\ result' = Update(result, [bin |-> geosearch_data[1].bin])
                 /\ data_sources' = Append(data_sources, "geosearch")
            ELSE UNCHANGED <<result, data_sources>>
    /\ pc' = "step2_ll84_bbl"
    /\ UNCHANGED <<kv, pe, au, net, cc, up, user_input, bbl, exc, ll84_dataset,
                   ll87_raw_table, building_metrics, writes>>

\* call_ll84_api_by_bbl(bbl): the mapped row the dataset holds for the key.
call_ll84_api_by_bbl(dataset, key) == dataset.by_bbl

\* The parameters call_ll84_api declares.
call_ll84_api_parameters == {"bin_number", "app_token"}

\* call_ll84_api(bin_number): the mapped first row found by the BIN; the key
\* that row carries is not read.
call_ll84_api(dataset, bin_number) ==
    IF dataset.by_bin = None THEN None ELSE Some(dataset.by_bin[1].data)

\* sum((r[col] or 0) for the columns from the i-th on with (r[col] or 0) > 0)
RECURSIVE gfa_calc(_, _)
gfa_calc(r, i) ==
    IF i > Len(USE_TYPE_SQFT_COLUMNS) THEN 0
    ELSE (IF OrZero(r[USE_TYPE_SQFT_COLUMNS[i]]) > 0
          THEN OrZero(r[USE_TYPE_SQFT_COLUMNS[i]]) ELSE 0) + gfa_calc(r, i + 1)

\* Step 2, "if ll84_data": result.update(ll84_data) and gfa_calculated.
MergeLl84(r, ll84_data) ==
    LET merged == Update(r, ll84_data) IN
    IF gfa_calc(merged, 1) > 0
    THEN Update(merged, [gfa_calculated |-> Some(gfa_calc(merged, 1))])
    ELSE merged

\* Step 2, call_ll84_api_by_bbl(bbl): a hit is merged and Step 3 follows (the
\* building_name fallback finds no '_pluto_api_raw' and changes nothing); a
\* miss goes to the BIN lookup when result has a BIN, else to PLUTO.
Step2Ll84Bbl ==
    /\ pc = "step2_ll84_bbl"
    /\ queried' = Append(queried, "ll84_bbl")
    /\ LET ll84_data == call_ll84_api_by_bbl(ll84_dataset, bbl) IN
       IF ll84_data # None
       THEN /\ result' = MergeLl84(result, ll84_data[1])
            /\ data_sources' = Append(data_sources, "ll84_api")
            /\ pc' = "step3"
       ELSE /\ pc' = IF Truthy(result["bin"]) THEN "step2_ll84_bin" ELSE "step2_pluto"
            /\ UNCHANGED <<result, data_sources>>
    /\ UNCHANGED <<kv, pe, au, net, cc, up, user_input, frame, bbl, exc, ll84_dataset,
                   ll87_raw_table, building_metrics, writes>>

\* Step 2, call_ll84_api(bin_number, expected_bbl=bbl): the call passes a
\* keyword the function does not declare, which raises TypeError outside any
\* try block.
Step2Ll84Bin ==
    /\ pc = "step2_ll84_bin"
    /\ IF "expected_bbl" \notin call_ll84_api_parameters
       THEN Raise("TypeError") /\ UNCHANGED <<result, data_sources, queried>>
       ELSE LET ll84_data == call_ll84_api(ll84_dataset, result["bin"][1]) IN
            /\ queried' = Append(queried, "ll84_bin")
            /\ exc' = exc
            /\ IF ll84_data # None
               THEN /\ result' = MergeLl84(result, ll84_data[1])
                    /\ data_sources' = Append(data_sources, "ll84_api")
                    /\ pc' = "step3"
               ELSE /\ pc' = "step2_pluto"
                    /\ UNCHANGED <<result, data_sources>>
    /\ UNCHANGED <<kv, pe, au, net, cc, up, user_input, frame, bbl, ll84_dataset,
                   ll87_raw_table, building_metrics, writes>>

\* Step 2, no LL84 data: call_pluto_api(bbl) unless 'pluto' is a source
\* already; its four fields are set in result, also those that are None.
\* "if 'pluto' not in data_sources": the fallback asks PLUTO only when
\* Step 1 has not used it.
PlutoUsed_mutant(sources) == FALSE

PlutoUsed(sources) == InList("pluto", sources)

Step2Pluto ==
    /\ pc = "step2_pluto"
    /\ queried' = IF PlutoUsed(data_sources) THEN queried
                  ELSE queried \o PlutoQueried(bbl)
    /\ \E pluto_data \in (IF PlutoUsed(data_sources) THEN {None}
                          ELSE PlutoResponses(bbl)) :
         IF pluto_data # None
         THEN /\ result' = Update(result, [year_built |-> pluto_data[1].year_built,
                                            gfa |-> pluto_data[1].gfa,
                                            address |-> pluto_data[1].address,
                                            zip_code |-> pluto_data[1].zip_code])
              /\ data_sources' = Append(data_sources, "pluto")
         ELSE UNCHANGED <<result, data_sources>>
    /\ pc' = "step3"
    /\ UNCHANGED <<kv, pe, au, net, cc, up, user_input, frame, bbl, exc, ll84_dataset,
                   ll87_raw_table, building_metrics, writes>>

\* Step 3, _query_ll87(bbl): a database error leaves the run; the selected
\* row, if any, is merged.
Step3 ==
    /\ pc = "step3"
    /\ queried' = Append(queried, "ll87")
    /\ \E fails \in BOOLEAN,
          ll87_data \in (IF Ll87Candidates(ll87_raw_table, bbl) = {} THEN {None}
                         ELSE {Some(Ll87Dict(r)) : r \in Ll87Candidates(ll87_raw_table, bbl)}) :
         IF fails
         THEN Raise("DatabaseError") /\ UNCHANGED <<result, data_sources>>
         ELSE /\ pc' = "step4"
              /\ exc' = exc
              /\ IF ll87_data # None
                 THEN /\ result' = Update(result, ll87_data[1])
                      /\ data_sources' = Append(data_sources, "ll87")
                 ELSE UNCHANGED <<result, data_sources>>
    /\ UNCHANGED <<kv, pe, au, net, cc, up, user_input, frame, bbl, ll84_dataset, ll87_raw_table,
                   building_metrics, writes>>

\* The items of building_data that are not None.
UpsertData_mutant(building_data) == DOMAIN building_data

UpsertData(building_data) == {k \in DOMAIN building_data : building_data[k] # None}

\* upsert_building_metrics raises when 'bbl' is no key of building_data, and
\* the statement fails when it names a column the table does not have or
\* has nothing to set.
upsert_raises(building_data) ==
    \/ "bbl" \notin DOMAIN building_data
    \/ UpsertData(building_data) \ BuildingMetricsColumns # {}
    \/ UpsertData(building_data) \ {"bbl"} = {}

\* The row after INSERT ... ON CONFLICT (bbl) DO UPDATE SET: the columns of
\* the statement take the new values, the others keep theirs.
upsert_building_metrics_mutant(row, building_data) ==
    [c \in DOMAIN row |->
        IF c \in UpsertData(building_data) THEN building_data[c] ELSE None]

upsert_building_metrics(row, building_data) ==
    [c \in DOMAIN row |->
        IF c \in UpsertData(building_data) THEN building_data[c] ELSE row[c]]

\* "except Exception as e: logger.error(...)" around every upsert: the run
\* goes on to its next position whether or not the write succeeded.
AfterCheckpoint_mutant(ok, next) ==
    IF ok THEN [pc |-> next, exc |-> "none"] ELSE [pc |-> "raised", exc |-> "DatabaseError"]

AfterCheckpoint(ok, next) == [pc |-> next, exc |-> "none"]

\* No upsert: save_to_db is false, or the stage has nothing to save.
NoSave(next) ==
    /\ pc' = next
    /\ UNCHANGED <<building_metrics, writes, exc>>

\* try: upsert_building_metrics(building_data) / except Exception: log
Save_mutant(checkpoint, building_data, db_fails, next) == NoSave(next)

Save(checkpoint, building_data, db_fails, next) ==
    LET ok == ~db_fails /\ ~upsert_raises(building_data) IN
    /\ building_metrics' = IF ok THEN upsert_building_metrics(building_metrics, building_data)
                           ELSE building_metrics
    /\ writes' = Append(writes, [checkpoint |-> checkpoint, ok |-> ok,
                                 columns |-> UpsertData(building_data),
                                 data |-> building_data])
    /\ pc' = AfterCheckpoint(ok, next).pc
    /\ exc' = AfterCheckpoint(ok, next).exc

\* {k: r[k] for k in keys}
Restrict(r, keys) == [k \in keys |-> r[k]]

\* Step 4: result[key] = float(value) for every key of penalty_result (a
\* float holds the two-decimal value, kept here in hundredths).
StorePenalty_mutant(r, penalty_result) ==
    Update(r, Restrict(penalty_result, {k \in PenaltyKeys : PeriodOfKey(k) = "2024-2029"}))

StorePenalty(r, penalty_result) ==
    Update(r, penalty_result)

\* Step 4: the penalty calculation on the energy values "or 0" and the use
\* types of result; a result that is not all None is stored, recorded as
\* 'calculated' and saved.
Step4 ==
    /\ pc = "step4"
    /\ LET penalty_result ==
               calculate_ll97_penalty(Some(OrZero(result["electricity_kwh"])),
                                      Some(OrZero(result["natural_gas_kbtu"])),
                                      Some(OrZero(result["fuel_oil_kbtu"])),
                                      Some(OrZero(result["steam_kbtu"])),
                                      extract_use_type_sqft(result))
           stored == StorePenalty(result, penalty_result)
       IN  IF \E k \in PenaltyKeys : penalty_result[k] # None
           THEN /\ result' = stored
                /\ data_sources' = Append(data_sources, "calculated")
                /\ IF frame.save_to_db
                   THEN \E db_fails \in BOOLEAN :
                          Save("penalty", Restrict(stored, {"bbl"} \cup PenaltyKeys),
                               db_fails, "step5")
                   ELSE NoSave("step5")
           ELSE NoSave("step5") /\ UNCHANGED <<result, data_sources>>
    /\ UNCHANGED <<kv, pe, au, net, cc, up, user_input, frame, bbl, queried, ll84_dataset,
                   ll87_raw_table>>

MaxFailedNarratives == 1

\* The categories whose generation fails in one call: at most
\* MaxFailedNarratives of them, or all six (the API refuses every request).
FailedNarratives ==
    {F \in SUBSET DOMAIN narrative_map : Cardinality(F) <= MaxFailedNarratives}
        \cup {DOMAIN narrative_map}

\* generate_all_narratives: every category gets a text, the categories whose
\* generation failed an error text.
generate_all_narratives_one_try(failed) ==
    [c \in DOMAIN narrative_map |->
        IF failed # {} THEN Some("Error generating narrative") ELSE Some("narrative")]

generate_all_narratives_mutant(failed) ==
    [c \in DOMAIN narrative_map |-> IF c \in failed THEN None ELSE Some("narrative")]

generate_all_narratives(failed) ==
    [c \in DOMAIN narrative_map |->
        IF c \in failed THEN Some("Error generating narrative") ELSE Some("narrative")]

\* Step 5: result[db_column] and result[category] for every category.
StoreNarratives(r, narratives) ==
    [k \in DOMAIN r |->
        IF k \in DOMAIN narratives THEN narratives[k]
        ELSE IF \E c \in DOMAIN narratives : narrative_map[c] = k
        THEN narratives[CHOOSE c \in DOMAIN narratives : narrative_map[c] = k]
        ELSE r[k]]

\* Step 5: with an API key the narratives are generated, stored, recorded
\* as 'narratives' and saved; without a key, or when the client cannot be
\* made, nothing changes.
Step5 ==
    /\ pc = "step5"
    /\ \E api_key \in BOOLEAN, client_raises \in BOOLEAN,
          failed \in FailedNarratives :
         IF api_key /\ ~client_raises
         THEN LET stored == StoreNarratives(result, generate_all_narratives(failed)) IN
              /\ result' = stored
              /\ frame' = [frame EXCEPT !.failed_narratives = failed]
              /\ data_sources' = Append(data_sources, "narratives")
              /\ IF frame.save_to_db
                 THEN \E db_fails \in BOOLEAN :
                        Save("narratives", Restrict(stored, {"bbl"} \cup NarrativeColumns),
                             db_fails, "finalize")
                 ELSE NoSave("finalize")
         ELSE NoSave("finalize") /\ UNCHANGED <<result, data_sources, frame>>
    /\ UNCHANGED <<kv, pe, au, net, cc, up, user_input, bbl, queried, ll84_dataset,
                   ll87_raw_table>>

\* ','.join(list): the tokens with a comma between them.
RECURSIVE Join(_)
Join(list) ==
    IF Len(list) <= 1 THEN list
    ELSE <<Head(list), ",">> \o Join(Tail(list))

\* Finalize: result['data_source'], and the save of every key of result
\* that is not excluded and does not start with '_'.
Finalize ==
    /\ pc = "finalize"
    /\ LET stored == Update(result, [data_source |-> Some(Join(data_sources))])
           db_data == Restrict(stored, {k \in DOMAIN stored :
                                          k \notin exclude_keys /\ ~StartsWithUnderscore(k)})
       IN  /\ result' = stored
           /\ IF frame.save_to_db
              THEN \E db_fails \in BOOLEAN : Save("final", db_data, db_fails, "resolve_tail")
              ELSE NoSave("resolve_tail")
    /\ UNCHANGED <<kv, pe, au, net, cc, up, user_input, frame, bbl, data_sources, queried,
                   ll84_dataset, ll87_raw_table>>

\* resolve_and_fetch after fetch_building_waterfall returned: the resolution
\* metadata, and the GeoSearch BIN when result has none.
ResolveTail ==
    /\ pc = "resolve_tail"
    /\ result' =
         IF frame.input_type \in {"bbl", "dashed_bbl"}
         THEN Update(result, [input_type |-> Some(frame.input_type),
                              resolved_bbl |-> Some(frame.normalized)])
         ELSE LET geosearch_data == frame.geosearch_data[1]
                  tagged == Update(result,
                                [input_type |-> Some("address"),
                                 resolved_bbl |-> geosearch_data.bbl,
                                 resolved_from_address |-> Some(frame.normalized),
                                 geosearch_confidence |-> geosearch_data.confidence])
              IN  IF Truthy(geosearch_data.bin) /\ ~Truthy(result["bin"])
                  THEN Update(tagged, [bin |-> geosearch_data.bin])
                  ELSE tagged
    /\ pc' = "returned"
    /\ UNCHANGED <<kv, pe, au, net, cc, up, user_input, frame, bbl, data_sources, queried, exc,
                   ll84_dataset, ll87_raw_table, building_metrics, writes>>

Next ==
    \/ ResolveAndFetch
    \/ Step1Ll97
    \/ Step1Pluto
    \/ Step1GeoSearch
    \/ Step2Ll84Bbl
    \/ Step2Ll84Bin
    \/ Step2Pluto
    \/ Step3
    \/ Step4
    \/ Step5
    \/ Finalize
    \/ ResolveTail

Spec == Init /\ [][Next]_vars

(***************************************************************************)
(* SpecRetry: one lookup of lib/nyc_apis.py against a network that answers *)
(* each request with a status or lets it time out                          *)
(***************************************************************************)
\* Retry(total=3, ...) of _create_retry_session.
RetryTotal == 3

\* Retry(status_forcelist=[429, 500, 502, 503, 504]).
status_forcelist == {"429", "500", "502", "503", "504"}

\* What one request can meet: a forcelist status, the per-call timeout
\* (timeout=15 / timeout=30), 200 with data, 200 without a match, or a
\* validation-class status.
NetResponses == status_forcelist \cup {"timeout", "200", "200-empty", "400"}

\* Rate limit, server-side error or per-call timeout.
Transient(r) == r \in status_forcelist \cup {"timeout"}

\* The lookups of nyc_apis.py (call_ll84_api_by_bbl is not in the source).
NetSources == {"pluto", "ll84", "geosearch"}

\* Retries of the session a lookup sends its request with:
\* call_geosearch_api uses _create_retry_session(); call_ll84_api and
\* call_pluto_api use Socrata(..., timeout=30), whose session has none.
max_retries(source) == IF source = "geosearch" THEN RetryTotal ELSE 0

\* Largest number of requests one lookup may send under the retry policy.
AttemptCap == RetryTotal + 1

RetryInit ==
    /\ kv = KvIdle
    /\ pe = PeIdle
    /\ au = AuIdle
    /\ cc = CcIdle
    /\ up = UpIdle
    /\ RunIdle
    /\ net \in {[NetIdle EXCEPT !.source = s, !.outcome = "calling"] : s \in NetSources}

\* session.get(...) / client.get(...): one request leaves.
SendRequest ==
    /\ net.outcome = "calling"
    /\ net' = [net EXCEPT !.attempts = @ + 1, !.outcome = "waiting"]
    /\ UNCHANGED <<kv, pe, au, cc, up>>
    /\ RunUnchanged

\* The answer to the request: data is a hit; no match and a validation-class
\* status are misses; a transient failure is retried while the session has
\* retries left and is a miss otherwise (except ... return None).
ReceiveResponse ==
    /\ net.outcome = "waiting"
    /\ \E r \in NetResponses :
         net' = [net EXCEPT
                   !.responses = Append(@, r),
                   !.outcome = IF r = "200" THEN "hit"
                               ELSE IF ~Transient(r) THEN "miss"
                               ELSE IF net.attempts <= max_retries(net.source)
                                    THEN "calling"
                                    ELSE "miss"]
    /\ UNCHANGED <<kv, pe, au, cc, up>>
    /\ RunUnchanged

RetryNext == SendRequest \/ ReceiveResponse

SpecRetry == RetryInit /\ [][RetryNext]_vars

(***************************************************************************)
(* SpecConcurrent: two runs of fetch_building_waterfall for different keys *)
(* with save_to_db, their stages and their upserts interleaved.  The       *)
(* sources answer by key; PLUTO and LL87 hold nothing for the two keys,    *)
(* and the narrative client can be made.                                   *)
(***************************************************************************)
\* The keys of the two runs.
RunKeys == <<BaseKey, OtherKey>>

RunIds == DOMAIN RunKeys

\* What the sources answer to one run: the LL97 row, the LL84 row, the
\* narrative categories whose generation fails and the checkpoints whose
\* upsert the database refuses.
KeySources ==
    [ll97 : {None} \cup {Some(r) : r \in {x \in Ll97Rows : x.bin # None}},
     ll84 : {Some(Ll84Full), Some(Ll84NoArea)},
     failed : {{}, DOMAIN narrative_map},
     db_fails : {{}, {"narratives"}}]

\* The row building_metrics holds for a key before the runs.
InitialRows(key) == {EmptyRow, [StaleRow EXCEPT !["bbl"] = Some(key)]}

\* result = {'bbl': bbl, ...}; data_sources = []
NewRun(key) ==
    [pc |-> "identity", bbl |-> key,
     result |-> Update(EmptyDict, [bbl |-> Some(key)]), data_sources |-> <<>>]

\* The row of ON CONFLICT (bbl): the one whose key is the 'bbl' of the data.
ConflictKey_mutant(building_data) == BaseKey

ConflictKey(building_data) == building_data["bbl"][1]

\* penalty_result of Step 4 for a record.
Step4Penalty(r) ==
    calculate_ll97_penalty(Some(OrZero(r["electricity_kwh"])),
                           Some(OrZero(r["natural_gas_kbtu"])),
                           Some(OrZero(r["fuel_oil_kbtu"])),
                           Some(OrZero(r["steam_kbtu"])),
                           extract_use_type_sqft(r))

\* The data of the upsert a run is about to make.
CheckpointData(run) ==
    CASE run.pc = "penalty_save" -> Restrict(run.result, {"bbl"} \cup PenaltyKeys)
      [] run.pc = "narrative_save" -> Restrict(run.result, {"bbl"} \cup NarrativeColumns)
      [] run.pc = "final_save" ->
            Restrict(run.result, {k \in DOMAIN run.result :
                                    k \notin exclude_keys /\ ~StartsWithUnderscore(k)})

CheckpointOf(run) ==
    CASE run.pc = "penalty_save" -> "penalty"
      [] run.pc = "narrative_save" -> "narratives"
      [] run.pc = "final_save" -> "final"

SavePcs == {"penalty_save", "narrative_save", "final_save"}

AfterSave(run) ==
    CASE run.pc = "penalty_save" -> "narrative"
      [] run.pc = "narrative_save" -> "finalize"
      [] run.pc = "final_save" -> "returned"

\* One stage of a run that touches only its own result and data_sources,
\* reading the sources by the key of the run.
Stage(run, src) ==
    CASE run.pc = "identity" ->
           IF src.ll97 # None
           THEN [run EXCEPT !.result = Update(@, Ll97Dict(run.bbl, src.ll97[1])),
                            !.data_sources = Append(@, "ll97"), !.pc = "usage"]
           ELSE [run EXCEPT !.pc = "usage"]
      [] run.pc = "usage" ->
           IF src.ll84 # None
           THEN [run EXCEPT !.result = MergeLl84(@, src.ll84[1]),
                            !.data_sources = Append(@, "ll84_api"), !.pc = "audit"]
           ELSE IF Truthy(run.result["bin"]) /\ "expected_bbl" \notin call_ll84_api_parameters
           THEN [run EXCEPT !.pc = "raised"]
           ELSE [run EXCEPT !.pc = "audit"]
      [] run.pc = "audit" -> [run EXCEPT !.pc = "penalty"]
      [] run.pc = "penalty" ->
           LET penalty_result == Step4Penalty(run.result) IN
           IF \E k \in PenaltyKeys : penalty_result[k] # None
           THEN [run EXCEPT !.result = StorePenalty(@, penalty_result),
                            !.data_sources = Append(@, "calculated"),
                            !.pc = "penalty_save"]
           ELSE [run EXCEPT !.pc = "narrative"]
      [] run.pc = "narrative" ->
           [run EXCEPT !.result = StoreNarratives(@, generate_all_narratives(src.failed)),
                       !.data_sources = Append(@, "narratives"),
                       !.pc = "narrative_save"]
      [] run.pc = "finalize" ->
           [run EXCEPT !.result = Update(@, [data_source |-> Some(Join(run.data_sources))]),
                       !.pc = "final_save"]

\* The table after the upsert of a run: one row changes, unless the
\* statement fails.
Upserted(store, run, src) ==
    LET building_data == CheckpointData(run) IN
    IF CheckpointOf(run) \in src.db_fails \/ upsert_raises(building_data)
    THEN store
    ELSE [store EXCEPT ![ConflictKey(building_data)] =
                           upsert_building_metrics(@, building_data)]

\* A run alone: its stages and upserts one after the other.
RECURSIVE Alone(_, _, _)
Alone(run, src, store) ==
    IF run.pc \in {"returned", "raised"} THEN [run |-> run, store |-> store]
    ELSE IF run.pc \in SavePcs
    THEN Alone([run EXCEPT !.pc = AfterSave(run)], src, Upserted(store, run, src))
    ELSE Alone(Stage(run, src), src, store)

\* The table before the runs.
InitialStore(row1, row2) == (RunKeys[1] :> row1) @@ (RunKeys[2] :> row2)

\* What run i gives alone, for every answer of the sources to its key and
\* every row its key may have before the run.
AloneOutcomes ==
    {[i |-> i, src |-> src, row |-> row,
      outcome |-> Alone(NewRun(RunKeys[i]), src,
                        IF i = 1 THEN InitialStore(row, EmptyRow)
                                 ELSE InitialStore(EmptyRow, row))] :
        i \in RunIds, src \in KeySources,
        row \in InitialRows(RunKeys[1]) \cup InitialRows(RunKeys[2])}

ConcurrentInit ==
    /\ kv = KvIdle
    /\ pe = PeIdle
    /\ au = AuIdle
    /\ net = NetIdle
    /\ up = UpIdle
    /\ RunIdle
    /\ \E sources \in [RunIds -> KeySources],
          row1 \in InitialRows(RunKeys[1]), row2 \in InitialRows(RunKeys[2]) :
         LET initial == InitialStore(row1, row2) IN
         cc = [sources |-> sources, initial |-> initial, store |-> initial,
               run |-> [i \in RunIds |-> NewRun(RunKeys[i])], overlap |-> FALSE]

\* A stage of run i.
RunStage(i) ==
    /\ cc.run[i].pc \notin SavePcs \cup {"returned", "raised"}
    /\ cc' = [cc EXCEPT !.run[i] = Stage(cc.run[i], cc.sources[i])]
    /\ UNCHANGED <<kv, pe, au, net, up>>
    /\ RunUnchanged

\* An upsert of run i; overlap records that it happened while the other run
\* was between its first stage and its return.
RunSave(i) ==
    /\ cc.run[i].pc \in SavePcs
    /\ cc' = [cc EXCEPT
                !.store = Upserted(cc.store, cc.run[i], cc.sources[i]),
                !.run[i].pc = AfterSave(cc.run[i]),
                !.overlap = @ \/ \E j \in RunIds \ {i} :
                                    cc.run[j].pc \notin {"identity", "returned"}]
    /\ UNCHANGED <<kv, pe, au, net, up>>
    /\ RunUnchanged

ConcurrentNext == \E i \in RunIds : RunStage(i) \/ RunSave(i)

SpecConcurrent == ConcurrentInit /\ [][ConcurrentNext]_vars

(***************************************************************************)
(* SpecSameKey: two runs of fetch_building_waterfall for the same key with *)
(* save_to_db, interleaved.  LL97 holds the key without a BIN; the LL84    *)
(* lookup finds the row or fails (the request is refused), the narratives  *)
(* and the narrative upsert may fail, for each run on its own.             *)
(***************************************************************************)
SameKeySources ==
    [ll97 : {Some(r) : r \in {x \in Ll97Rows : x.bin = None}},
     ll84 : {None, Some(Ll84NoArea)},
     failed : {{}, DOMAIN narrative_map},
     db_fails : {{}, {"narratives"}}]

SameKeyInit ==
    /\ kv = KvIdle
    /\ pe = PeIdle
    /\ au = AuIdle
    /\ net = NetIdle
    /\ up = UpIdle
    /\ RunIdle
    /\ \E sources \in [RunIds -> SameKeySources], row \in InitialRows(BaseKey) :
         LET initial == InitialStore(row, EmptyRow) IN
         cc = [sources |-> sources, initial |-> initial, store |-> initial,
               run |-> [i \in RunIds |-> NewRun(BaseKey)], overlap |-> FALSE]

SpecSameKey == SameKeyInit /\ [][ConcurrentNext]_vars

(***************************************************************************)
(* SpecUpsert: upsert_building_metrics applied to table building_metrics   *)
(***************************************************************************)
\* The number of calls followed.
MaxUpsertCalls == 2

\* created_at and updated_at, TIMESTAMPTZ DEFAULT NOW()
TimestampColumns == {"created_at", "updated_at"}

\* The columns of the table the calls name, and a name that is no column.
UpsertColumns == {"bbl", "year_built", "penalty_2024_2029"} \cup TimestampColumns

NoColumn == "gfa_calculated"

NoRow == <<>>

\* update_columns: the items that are not None, without bbl, created_at and
\* updated_at.
update_columns(building_data) ==
    UpsertData(building_data) \ ({"bbl"} \cup TimestampColumns)

\* Trigger update_building_metrics_updated_at, BEFORE UPDATE FOR EACH ROW.
update_updated_at_column_mutant(new_row, now) == new_row

update_updated_at_column(new_row, now) == [new_row EXCEPT !["updated_at"] = Some(now)]

\* The exception of a call, "none" when the statement commits.
upsert_exception(building_data, columns) ==
    IF "bbl" \notin DOMAIN building_data THEN "ValueError"
    ELSE IF building_data["bbl"] = None THEN "KeyError"
    ELSE IF UpsertData(building_data) \ columns # {} THEN "DatabaseError"
    ELSE IF update_columns(building_data) = {} THEN "DatabaseError"
    ELSE "none"

\* INSERT INTO building_metrics (columns) VALUES (...): the columns of the
\* statement take its values, the timestamps default to NOW(), the others
\* to NULL.
InsertedRow(building_data, now) ==
    [c \in UpsertColumns |->
        IF c \in UpsertData(building_data) THEN building_data[c]
        ELSE IF c \in TimestampColumns THEN Some(now)
        ELSE None]

\* ON CONFLICT (bbl) DO UPDATE SET col = EXCLUDED.col for update_columns,
\* then the trigger.
UpdatedRow(row, building_data, now) ==
    update_updated_at_column(
        [c \in DOMAIN row |->
            IF c \in update_columns(building_data) THEN building_data[c] ELSE row[c]],
        now)

\* The table after a call: unchanged when the call raises.
UpsertedTable(table, building_data, now) ==
    IF upsert_exception(building_data, UpsertColumns) # "none" THEN table
    ELSE LET key == building_data["bbl"][1] IN
         [table EXCEPT ![key] = IF table[key] = NoRow
                                THEN InsertedRow(building_data, now)
                                ELSE UpdatedRow(table[key], building_data, now)]

\* A building_data dict: the keys in present, with these values.
UpsertInput(present, key, year_built, penalty) ==
    [k \in present |->
        CASE k = "bbl" -> key
          [] k = "year_built" -> year_built
          [] k = "penalty_2024_2029" -> penalty
          [] k = "created_at" -> Some(50)
          [] k = "updated_at" -> Some(50)
          [] OTHER -> Some(120000)]

UpsertInputs ==
    {UpsertInput(present, key, year_built, penalty) :
        present \in SUBSET (UpsertColumns \cup {NoColumn}),
        key \in {None, Some(BaseKey), Some(OtherKey)},
        year_built \in {None, Some(2001)},
        penalty \in {Some(100)}}

\* A row written earlier.
StoredRow(key) ==
    [c \in UpsertColumns |->
        CASE c = "bbl" -> Some(key)
          [] c = "year_built" -> Some(1915)
          [] c = "penalty_2024_2029" -> Some(99900)
          [] OTHER -> Some(0)]

UpsertInit ==
    /\ kv = KvIdle
    /\ pe = PeIdle
    /\ au = AuIdle
    /\ net = NetIdle
    /\ cc = CcIdle
    /\ RunIdle
    /\ \E row \in {NoRow, StoredRow(BaseKey)} :
         up = [table |-> [k \in {BaseKey, OtherKey} |->
                             IF k = BaseKey THEN row ELSE StoredRow(OtherKey)],
               now |-> 1, building_data |-> <<>>, exception |-> "idle"]

\* One call of upsert_building_metrics(building_data) at time now.
UpsertCall ==
    /\ up # UpIdle
    /\ up.now <= MaxUpsertCalls
    /\ \E building_data \in UpsertInputs :
         up' = [table |-> UpsertedTable(up.table, building_data, up.now),
                now |-> up.now + 1,
                building_data |-> building_data,
                exception |-> upsert_exception(building_data, UpsertColumns)]
    /\ UNCHANGED <<kv, pe, au, net, cc>>
    /\ RunUnchanged

UpsertNext == UpsertCall

SpecUpsert == UpsertInit /\ [][UpsertNext]_vars

(***************************************************************************)
(* Properties                                                              *)
(***************************************************************************)
\* C1: validate_bbl never raises, and it returns True exactly for the
\* strings of length 10 made of ASCII digits whose first digit is in 1..5.
C1_ValidationIffKeyShape ==
    kv.op = "validate_bbl" =>
        /\ ~kv.raised
        /\ kv.valid <=> IsKeyShape(kv.input)

\* C2: for a key k of the building-key shape, bbl_from_dashed(bbl_to_dashed(k))
\* is k, and normalize_input of k and of its dashed form both yield k, as a
\* "bbl" and as a "dashed_bbl".
C2_RoundTrip ==
    IsKeyShape(kv.input) =>
        /\ kv.op = "bbl_to_dashed" => ~kv.raised
        /\ kv.op = "bbl_from_dashed" => kv.text = kv.input
        /\ kv.op = "normalize_input" => kv.itype = "bbl" /\ kv.text = kv.input
        /\ kv.op = "normalize_dashed" => kv.itype = "dashed_bbl" /\ kv.text = kv.input

C2_Witness ==
    /\ IsKeyShape(kv.input)
    /\ kv.input # BaseKey
    /\ kv.op = "normalize_dashed"
    /\ kv.text = kv.input

\* C4: when each of the four energy quantities is None or <= 0, the call
\* returns all six fields None, whatever the use-type areas are.
C4_NoEnergyAllAbsent ==
    (/\ pe.op \in {"called", "recalled"}
     /\ \A f \in Fuels : pe[f] = None \/ pe[f][1] <= 0)
        => PenaltyAbsent(pe.result)

C4_Witness ==
    /\ pe.op = "called"
    /\ pe.electricity_kwh = Some(0)
    /\ pe.natural_gas_kbtu = None
    /\ pe.steam_kbtu = Some(-1000)
    /\ pe.use_type_sqft["office"] = Some(100000)
    /\ PenaltyAbsent(pe.result)

\* C5: in a present result, for each period the penalty is
\* max(emissions - limit, 0) x 268 of the returned (rounded) emissions and
\* limit; it is never negative and it is 0 exactly when emissions <= limit.
C5_PenaltyFormula ==
    (pe.op \in {"called", "recalled"} /\ ~PenaltyAbsent(pe.result)) =>
        /\ PenaltyPresent(pe.result)
        /\ \A y \in {"2024_2029", "2030_2034"} :
              LET ghg == IF y = "2024_2029" THEN pe.result.ghg_emissions_2024_2029[1]
                         ELSE pe.result.ghg_emissions_2030_2034[1]
                  limit == IF y = "2024_2029" THEN pe.result.emissions_limit_2024_2029[1]
                           ELSE pe.result.emissions_limit_2030_2034[1]
                  penalty == IF y = "2024_2029" THEN pe.result.penalty_2024_2029[1]
                             ELSE pe.result.penalty_2030_2034[1]
              IN  /\ penalty = (IF ghg > limit THEN ghg - limit ELSE 0) * 268
                  /\ penalty >= 0
                  /\ penalty = 0 <=> ghg <= limit

\* 1000 kWh alone: 0.15 tCO2e and a penalty of 40.20 in 2030-2034.
C5_Witness ==
    /\ pe.op = "called"
    /\ pe.result.ghg_emissions_2030_2034 = Some(15)
    /\ pe.result.emissions_limit_2030_2034 = Some(0)
    /\ pe.result.penalty_2030_2034 = Some(4020)
    /\ pe.result.penalty_2024_2029 = Some(7772)

LiteralScenario ==
    /\ pe.op = "called"
    /\ pe.electricity_kwh = Some(10000000)
    /\ pe.natural_gas_kbtu = Some(5000000)
    /\ pe.fuel_oil_kbtu = Some(0)
    /\ pe.steam_kbtu = Some(0)
    /\ pe.use_type_sqft = AreaDict(None, None, Some(100000))

C7_Monotone ==
    (pe.op = "recalled" /\ PenaltyPresent(pe.prev) /\ PenaltyPresent(pe.result)) =>
        /\ pe.result.penalty_2024_2029[1] >= pe.prev.penalty_2024_2029[1]
        /\ pe.result.penalty_2030_2034[1] >= pe.prev.penalty_2030_2034[1]

C7_Witness ==
    /\ pe.op = "recalled"
    /\ PenaltyPresent(pe.prev)
    /\ PenaltyPresent(pe.result)
    /\ pe.steam_kbtu = Some(1000)
    /\ pe.result.penalty_2024_2029[1] > pe.prev.penalty_2024_2029[1]
    /\ pe.result.penalty_2030_2034[1] > pe.prev.penalty_2030_2034[1]

\* C10: _query_ll87 returns no row when the key has none and one row
\* otherwise; the row is of period 2019-2024 whenever the key has a row of
\* that period, and no row of the key in the same period has a higher
\* audit id.
C10_AuditSelection ==
    au.op = "queried" =>
        LET rows == {r \in au.table : r.bbl = au.key} IN
        /\ au.selected = None <=> rows = {}
        /\ au.selected # None =>
              \E sel \in rows :
                 /\ au.selected[1] = Ll87Dict(sel)
                 /\ (\E r \in rows : r.reporting_period = "2019-2024")
                       => sel.reporting_period = "2019-2024"
                 /\ \A r \in rows :
                       r.reporting_period = sel.reporting_period
                          => r.audit_template_id <= sel.audit_template_id

\* A newer-period row with audit id 0 is selected although an older-period
\* row of the key has a higher audit id.
C10_Witness ==
    /\ au.op = "queried"
    /\ au.selected # None
    /\ au.selected[1].ll87_period = Some("2019-2024")
    /\ au.selected[1].ll87_audit_id = Some(0)
    /\ \E r \in au.table :
          /\ r.bbl = au.key
          /\ r.reporting_period = "2012-2018"
          /\ r.audit_template_id = MaxAuditId

(***************************************************************************)
(* Properties of the run of resolve_and_fetch                              *)
(***************************************************************************)
OrchPcs ==
    {"entry", "step1_ll97", "step1_pluto", "step1_geosearch", "step2_ll84_bbl",
     "step2_ll84_bin", "step2_pluto", "step3", "step4", "step5", "finalize",
     "resolve_tail", "returned", "raised"}

\* The run is at one of its positions, and an exception has left it exactly
\* when it is at "raised".
OrchTypeOK ==
    /\ pc \in OrchPcs
    /\ (pc = "raised") <=> (exc # "none")
    /\ DOMAIN result = ResultKeys

\* A key-like input that fails the building-key shape: ten digits, or the
\* dashed form D-DDDDD-DDDD, whose ten characters are not a building key.
MalformedKey(s) ==
    \/ Len(strip(s)) = 10 /\ isdigit(strip(s)) /\ ~IsKeyShape(strip(s))
    \/ MatchesDashedPattern(strip(s)) /\ ~IsKeyShape(RemoveDashes(strip(s)))

\* C3: when the input of resolve_and_fetch is a malformed key, the call ends
\* with a validation error and no identity, characteristics, geocode, usage
\* or audit source has been queried.
C3_MalformedKeyRejected ==
    MalformedKey(user_input) =>
        /\ queried = <<>>
        /\ pc \in {"raised", "returned"} => exc = "ValueError"

\* The run obtained at least one energy quantity greater than 0.
EnergyObtained == \E k \in EnergyKeys : result[k] # None /\ result[k][1] > 0

\* C8: in the record a run returns, the six penalty fields are all present
\* or all absent; they are present only if the run obtained an energy
\* quantity greater than 0; and 'calculated' is in the provenance list (and
\* in the provenance string) exactly when they are present.
C8_PenaltyAllOrNothing ==
    pc = "returned" =>
        /\ PenaltyPresent(result) \/ PenaltyAbsent(result)
        /\ PenaltyPresent(result) => EnergyObtained
        /\ InList("calculated", data_sources) <=> PenaltyPresent(result)
        /\ InList("calculated", result["data_source"][1]) <=> PenaltyPresent(result)

C8_Witness ==
    /\ pc = "returned"
    /\ PenaltyPresent(result)
    /\ InList("calculated", data_sources)
    /\ result["penalty_2024_2029"] = Some(0)
    /\ result["ghg_emissions_2024_2029"][1] > 0

\* The BIN lookup would return a record that carries another building key.
BinRecordMismatch ==
    /\ ll84_dataset.by_bbl = None
    /\ ll84_dataset.by_bin # None
    /\ ll84_dataset.by_bin[1].bbl # bbl

\* C9: in Step 2, when the lookup by key misses and the lookup by BIN returns
\* a record that carries another key, the record is discarded: nothing is
\* merged, 'll84_api' is not appended, and the PLUTO fallback follows as
\* after a miss.
C9_MismatchDiscarded ==
    [][(pc = "step2_ll84_bin" /\ BinRecordMismatch)
          => (pc' = "step2_pluto" /\ result' = result /\ data_sources' = data_sources)]_vars

\* The Identity stage hit the LL97 table.
Ll97Hit == InList("ll97", data_sources)

\* C11 as stated: in every run where the Identity stage hits LL97, the final
\* provenance list starts with 'll97' and contains neither 'pluto' nor
\* 'geosearch'.
C11_NoFallbackTokenAsStated ==
    (pc = "returned" /\ Ll97Hit) =>
        /\ data_sources[1] = "ll97"
        /\ ~InList("pluto", data_sources)
        /\ ~InList("geosearch", data_sources)

\* C11: in every run where the Identity stage hits LL97, the provenance
\* list starts with 'll97' and never contains 'geosearch'; it contains
\* 'pluto' only as its second token, appended by the PLUTO fallback of
\* Step 2 when no LL84 data was found.
C11_PrimaryHitProvenance ==
    Ll97Hit =>
        /\ data_sources[1] = "ll97"
        /\ ~InList("geosearch", data_sources)
        /\ InList("pluto", data_sources) =>
              /\ data_sources[2] = "pluto"
              /\ ~InList("ll84_api", data_sources)
              /\ pc \notin {"step1_ll97", "step1_pluto", "step1_geosearch",
                            "step2_ll84_bbl", "step2_ll84_bin", "step2_pluto"}

C11_Witness ==
    /\ pc = "returned"
    /\ Ll97Hit
    /\ InList("pluto", data_sources)
    /\ InList("ll87", data_sources)

\* The tokens of the provenance list, in the order of the stages that
\* append them.
TokenRank ==
    [tok \in {"ll97", "pluto", "geosearch", "ll84_api", "ll87", "calculated", "narratives"} |->
        CASE tok = "ll97" -> 1
          [] tok = "pluto" -> 2
          [] tok = "geosearch" -> 3
          [] tok = "ll84_api" -> 4
          [] tok = "ll87" -> 5
          [] tok = "calculated" -> 6
          [] tok = "narratives" -> 7]

\* The source or stage of the token ran in the step that appends it.
TokenExecuted(tok) ==
    CASE tok = "ll84_api" -> queried' # queried /\ queried'[Len(queried')] = "ll84_bbl"
      [] tok = "calculated" -> pc = "step4"
      [] tok = "narratives" -> pc = "step5"
      [] OTHER -> queried' # queried /\ queried'[Len(queried')] = tok

\* The step sets a field of the record to a new value.
StepContributes == \E k \in ResultKeys : result'[k] # None /\ result'[k] # result[k]

StageOf ==
    [p \in OrchPcs |->
        CASE p = "entry" -> 0
          [] p \in {"step1_ll97", "step1_pluto", "step1_geosearch"} -> 1
          [] p \in {"step2_ll84_bbl", "step2_ll84_bin", "step2_pluto"} -> 2
          [] p = "step3" -> 3
          [] p = "step4" -> 4
          [] p = "step5" -> 5
          [] p \in {"finalize", "resolve_tail", "returned"} -> 6
          [] p = "raised" -> 7]

\* C13: a run that is not rejected at entry attempts Identity, Usage, Audit,
\* Penalty and Narrative in that order: from a stage the run only stays in
\* it or enters the next one, whatever the stage found.
C13_StagesInOrder ==
    [][/\ StageOf[pc] = 0 => StageOf[pc'] \in {1, 7}
       /\ StageOf[pc] \in 1..5 => StageOf[pc'] \in {StageOf[pc], StageOf[pc] + 1}
       /\ StageOf[pc] = 6 => StageOf[pc'] = 6]_vars

\* C14: the only failure that leaves resolve_and_fetch is the validation
\* error raised at entry, before the waterfall starts.
C14_OnlyValidationErrorPropagates ==
    /\ exc \in {"none", "ValueError"}
    /\ exc = "ValueError" => bbl = <<>>

\* The step attempted an upsert and the upsert failed.
WriteFailed == Len(writes') = Len(writes) + 1 /\ ~writes'[Len(writes')].ok

\* C15: a write to building_metrics that fails does not end the run and
\* takes nothing from the record: the step that attempted it leaves no
\* exception, goes on to the next position, appends the token of its stage,
\* and the record holds every value any write of the run carried.
C15_WriteFailureAbsorbed ==
    [][WriteFailed =>
         /\ exc' = "none"
         /\ pc' = CASE pc = "step4" -> "step5"
                    [] pc = "step5" -> "finalize"
                    [] pc = "finalize" -> "resolve_tail"
                    [] OTHER -> "none"
         /\ data_sources' = CASE pc = "step4" -> Append(data_sources, "calculated")
                              [] pc = "step5" -> Append(data_sources, "narratives")
                              [] OTHER -> data_sources
         /\ \A i \in 1..Len(writes') : \A k \in DOMAIN writes'[i].data :
              result'[k] = writes'[i].data[k]]_vars

C15_Witness ==
    /\ pc = "returned"
    /\ Len(writes) = 3
    /\ \A i \in 1..3 : ~writes[i].ok
    /\ PenaltyPresent(result)
    /\ result["envelope_narrative"] = Some("narrative")
    /\ data_sources[Len(data_sources)] = "narratives"

\* The checkpoints of the upserts attempted so far, in order.
Checkpoints == [i \in 1..Len(writes) |-> writes[i].checkpoint]

WriteSucceeded == Len(writes') = Len(writes) + 1 /\ writes'[Len(writes')].ok

C18_AcceptedIffConfidentAsStated ==
    [][pc = "step1_geosearch" =>
         LET response == frame'.geosearch_response IN
         IF response # None /\ response[1].confidence >= 8
         THEN /\ result'["bin"] = response[1].bin
              /\ data_sources' = Append(data_sources, "geosearch")
         ELSE /\ result'["bin"] = result["bin"]
              /\ data_sources' = data_sources]_vars

\* C18: in Step 1 a GeoSearch result is used exactly when its confidence is
\* at least 0.8 and it carries a BIN: then the BIN of the record is set to
\* it and 'geosearch' is appended; a result below 0.8, without confidence
\* or without a BIN leaves the BIN and the list alone.
C18_AcceptedIffConfidentWithBin ==
    [][pc = "step1_geosearch" =>
         LET response == frame'.geosearch_response IN
         IF response # None /\ response[1].confidence >= 8 /\ response[1].bin # None
         THEN /\ result'["bin"] = response[1].bin
              /\ data_sources' = Append(data_sources, "geosearch")
         ELSE /\ result'["bin"] = result["bin"]
              /\ data_sources' = data_sources]_vars

C18_Witness ==
    /\ pc = "step2_ll84_bbl"
    /\ frame.geosearch_response # None
    /\ frame.geosearch_response[1].confidence = 8
    /\ result["bin"] = Some("1001390")
    /\ data_sources = <<"pluto", "geosearch">>

\* C19 as stated: a lookup that meets a transient failure is retried until
\* the attempt cap is reached and only then counted as a miss; a lookup
\* never sends more requests than the cap.
C19_TransientRetriedToCap ==
    /\ [](net.attempts <= AttemptCap)
    /\ [][(net.outcome = "waiting" /\ net'.outcome # "waiting"
             /\ Transient(net'.responses[Len(net'.responses)]))
          => IF net'.attempts < AttemptCap
             THEN net'.outcome = "calling"
             ELSE net'.outcome = "miss"]_vars

\* What run i gives when it runs alone on the initial table.
AloneOutcome(i) ==
    (CHOOSE t \in AloneOutcomes :
        /\ t.i = i
        /\ t.src = cc.sources[i]
        /\ t.row = cc.initial[RunKeys[i]]).outcome

\* C20: two runs for different keys, interleaved in any order, each return
\* the record and leave the stored row of their key that they give when run
\* alone, and a row of the table changes only in a step of the run of its
\* key.
C20_ConcurrentRunsIndependent ==
    /\ [](cc # CcIdle =>
            \A i \in RunIds :
               cc.run[i].pc = "returned" =>
                  /\ cc.run[i].result = AloneOutcome(i).run.result
                  /\ cc.run[i].data_sources = AloneOutcome(i).run.data_sources
                  /\ cc.store[RunKeys[i]] = AloneOutcome(i).store[RunKeys[i]])
    /\ [][cc # CcIdle =>
            \A i \in RunIds :
               cc'.run[i] = cc.run[i] => cc'.store[RunKeys[i]] = cc.store[RunKeys[i]]]_vars

C20_Witness ==
    /\ cc # CcIdle
    /\ \A i \in RunIds :
          /\ cc.run[i].pc = "returned"
          /\ cc.store[RunKeys[i]] # cc.initial[RunKeys[i]]
          /\ cc.store[RunKeys[i]]["bbl"] = Some(RunKeys[i])
    /\ cc.overlap

\* C21: when the narrative of a category fails in Step 5, the text of that
\* category is the error marker, under both of its keys, the other
\* categories have their generated text, and no later step of the run
\* raises: the run goes on to its return.
C21_NarrativeFailureIsolated ==
    /\ [][(pc = "step5" /\ data_sources' # data_sources) =>
            /\ \A c \in DOMAIN narrative_map :
                  /\ result'[c] = IF c \in frame'.failed_narratives
                                  THEN Some("Error generating narrative")
                                  ELSE Some("narrative")
                  /\ result'[narrative_map[c]] = result'[c]
            /\ pc' = "finalize"]_vars
    /\ [][(pc \in {"step5", "finalize", "resolve_tail"}) => pc' # "raised"]_vars
    /\ [](pc = "returned" =>
            \A c \in DOMAIN narrative_map :
               (c \in frame.failed_narratives) <=>
                    (result[c] = Some("Error generating narrative")))

C21_Witness ==
    /\ pc = "returned"
    /\ frame.failed_narratives = {"Heating System"}
    /\ result["heating_narrative"] = Some("Error generating narrative")
    /\ \A c \in DOMAIN narrative_map \ {"Heating System"} :
          result[narrative_map[c]] = Some("narrative")

\* C22: the keys of the dictionary extract_use_type_sqft returns are the
\* use-type columns of the record whose value is > 0, without "_sqft", and
\* each carries the value of its column; a column that is missing, None,
\* zero or negative gives no entry, and no other key of the record does.
C22_ExtractUseTypes ==
    pe.op = "extracted" =>
        LET building_data == pe.building_data
            extracted == pe.use_type_sqft
            cols == {USE_TYPE_SQFT_COLUMNS[i] : i \in 1..Len(USE_TYPE_SQFT_COLUMNS)}
        IN  /\ \A col \in cols :
                  IF /\ col \in DOMAIN building_data
                     /\ building_data[col] # None
                     /\ building_data[col][1] > 0
                  THEN /\ StripSqft(col) \in DOMAIN extracted
                       /\ extracted[StripSqft(col)] = building_data[col]
                  ELSE StripSqft(col) \notin DOMAIN extracted
            /\ DOMAIN extracted \subseteq {StripSqft(col) : col \in cols}
            /\ DOMAIN extracted \cap DOMAIN building_data = {}

C22_Witness ==
    /\ pe.op = "extracted"
    /\ pe.building_data = BuildingRecord({"barracks_sqft", "hotel_sqft", "office_sqft"},
                                         Some(-30000), Some(0), Some(50000))
    /\ DOMAIN pe.use_type_sqft = {"office"}
    /\ pe.use_type_sqft["office"] = Some(50000)

\* C23: inside the waterfall GeoSearch is queried only in Step 1, after LL97
\* missed and PLUTO gave an address; when PLUTO gives data without an
\* address, GeoSearch is not queried, year built, floor area and zip code of
\* PLUTO are in the record, 'pluto' is appended and Step 2 follows.
C23_GeocodeOnlyWithAddress ==
    /\ [][(pc # "entry" /\ queried' # queried
             /\ queried'[Len(queried')] = "geosearch")
          => /\ pc = "step1_geosearch"
             /\ ~InList("ll97", data_sources)
             /\ InList("pluto", data_sources)
             /\ result["address"] # None]_vars
    /\ [][(pc = "step1_pluto" /\ result'["year_built"] # None
             /\ result'["address"] = None)
          => /\ pc' = "step2_ll84_bbl"
             /\ queried' = Append(queried, "pluto")
             /\ data_sources' = Append(data_sources, "pluto")
             /\ result'["gfa"] = Some(850000)
             /\ result'["zip_code"] = Some("10005")
             /\ result'["bin"] = result["bin"]]_vars

C23_Witness ==
    /\ pc = "step2_ll84_bbl"
    /\ data_sources = <<"pluto">>
    /\ result["address"] = None
    /\ result["year_built"] = Some(1915)
    /\ result["zip_code"] = Some("10005")
    /\ ~InList("geosearch", queried)

\* C24: the PLUTO fallback of Step 2 sets year built and floor area only: no
\* energy quantity and no other field of the record changes, so an address
\* or zip code set in Step 1 keeps its value.
C24_FallbackSetsYearAndAreaOnly ==
    [][pc = "step2_pluto" =>
         \A k \in ResultKeys \ {"year_built", "gfa"} : result'[k] = result[k]]_vars

\* The sum of the values > 0 that record r has under keys.
RECURSIVE SumPositive(_, _)
SumPositive(r, keys) ==
    IF keys = {} THEN 0
    ELSE LET k == CHOOSE x \in keys : TRUE
         IN  (IF PositiveQuantity(r[k]) THEN r[k][1] ELSE 0)
                + SumPositive(r, keys \ {k})

\* The floor areas by use type that LL84 supplies (the '_sqft' names of
\* LL84_FIELD_MAP).
Ll84AreaKeys == (Ll84Keys \cap UseTypeColumns) \cup {"supermarket_grocery_sqft"}

\* C25: after an LL84 hit, gfa_calculated is the sum of the use-type areas
\* > 0 that LL84 supplied and is absent when there is none, and gfa is the
\* self-reported area of LL84.
C25_CalculatedGfaIsSumOfAreas ==
    [][(pc \in {"step2_ll84_bbl", "step2_ll84_bin"} /\ pc' = "step3") =>
         /\ result'["gfa_calculated"] =
               IF SumPositive(result', Ll84AreaKeys) > 0
               THEN Some(SumPositive(result', Ll84AreaKeys)) ELSE None
         /\ result'["gfa"] = ll84_dataset.by_bbl[1].gfa]_vars

\* area x factor of one use type for a period; zero when the area is not
\* > 0 or the period has no factor for the use type.
LimitTerm(use_type_sqft, use_type, period) ==
    IF /\ use_type \in DOMAIN use_type_sqft
       /\ use_type_sqft[use_type] # None
       /\ use_type_sqft[use_type][1] > 0
       /\ use_type \in DOMAIN EMISSIONS_FACTORS[period]
    THEN DecMul(use_type_sqft[use_type][1], EMISSIONS_FACTORS[period][use_type])
    ELSE <<0, 0>>

\* C26: for each period the emissions limit of a result is the sum of
\* area x factor over the use types with area > 0 and a factor for the
\* period, rounded half-up to 2 fractional digits; barracks, which has no
\* factor, adds nothing, and the call returns a limit all the same.
C26_LimitIsSumOverFactoredUseTypes ==
    (pe.op \in {"called", "recalled"} /\ PenaltyPresent(pe.result)) =>
        \A p \in {Periods[i] : i \in 1..Len(Periods)} :
           \A k \in {x \in PenaltyKeys : IsLimitKey(x) /\ PeriodOfKey(x) = p} :
              pe.result[k] =
                 Some(QuantizeHalfUp(
                        DecAdd(DecAdd(LimitTerm(pe.use_type_sqft, "barracks", p),
                                      LimitTerm(pe.use_type_sqft, "hotel", p)),
                               LimitTerm(pe.use_type_sqft, "office", p))))

C26_Witness ==
    /\ pe.op = "called"
    /\ pe.use_type_sqft = AreaDict(Some(50000), Some(30000), Some(100000))
    /\ pe.result.emissions_limit_2024_2029 = Some(105410)
    /\ pe.result.emissions_limit_2030_2034 = Some(38461)

\* The row of the key after run i alone has made its upserts on the row the
\* key had before the two runs.
WrittenAlone(i) ==
    Alone(NewRun(BaseKey), cc.sources[i], cc.initial).store[BaseKey]

\* C27: when two runs for the same key have returned, the row of the key is
\* the row one of the two runs leaves when it runs alone: no column comes
\* from one run and another column from the other.
C27_SameKeyRowFromOneRun ==
    (cc # CcIdle /\ \A i \in RunIds : cc.run[i].pc = "returned") =>
        \E i \in RunIds : cc.store[BaseKey] = WrittenAlone(i)

\* The key the call names.
CallKey == up'.building_data["bbl"][1]

Count(item, list) == Cardinality({i \in 1..Len(list) : list[i] = item})

\* C29: in a run PLUTO is queried at most twice, it is not queried once
\* 'pluto' is in the provenance list (PLUTO returned data in Step 1), and
\* no token is in the provenance list twice.
C29_PlutoQueriedAtMostTwice ==
    /\ [](pc # "idle" =>
            /\ Count("pluto", queried) <= 2
            /\ \A tok \in {data_sources[i] : i \in 1..Len(data_sources)} :
                 Count(tok, data_sources) = 1)
    /\ [][(pc # "idle" /\ Count("pluto", queried') > Count("pluto", queried)) =>
             ~InList("pluto", data_sources)]_vars

\* Step 2 reached its PLUTO fallback after PLUTO had returned data in
\* Step 1, and did not ask again.
C29_Witness ==
    /\ pc = "step3"
    /\ ~InList("ll97", data_sources)
    /\ ~InList("ll84_api", data_sources)
    /\ Count("pluto", data_sources) = 1
    /\ Count("pluto", queried) = 1

\* The four energy quantities of the call are not negative (a missing one
\* counts as 0) and at least one is above 0.
NonNegativeEnergy ==
    /\ \A f \in Fuels : pe[f] = None \/ pe[f][1] >= 0
    /\ \E f \in Fuels : pe[f] # None /\ pe[f][1] > 0

\* C30: for four non-negative energy quantities of which at least one is
\* above 0, the emissions of 2030-2034 are never greater than the emissions
\* of 2024-2029, and no 2030-2034 coefficient is above its 2024-2029 one.
C30_LaterEmissionsNotGreater ==
    (pe.op \in {"called", "recalled"} /\ NonNegativeEnergy) =>
        /\ pe.result.ghg_emissions_2024_2029 # None
        /\ pe.result.ghg_emissions_2030_2034 # None
        /\ pe.result.ghg_emissions_2030_2034[1] <= pe.result.ghg_emissions_2024_2029[1]
        /\ \A f \in DOMAIN CARBON_COEFFICIENTS["2024-2029"] :
             CARBON_COEFFICIENTS["2030-2034"][f] <= CARBON_COEFFICIENTS["2024-2029"][f]

\* 1000 kWh of electricity and 1000 kBtu of steam: 0.33 and 0.19 tCO2e.
C30_Witness ==
    /\ pe.op = "called"
    /\ NonNegativeEnergy
    /\ pe.electricity_kwh = Some(1000)
    /\ pe.steam_kbtu = Some(1000)
    /\ pe.result.ghg_emissions_2024_2029 = Some(33)
    /\ pe.result.ghg_emissions_2030_2034 = Some(19)

====
